---- MODULE Spec2Model ----
(***************************************************************************)
(* Model of the enclave side of the two-party Groth16 ceremony             *)
(* (src/app/enclave/run-enclave-ceremony.ts) together with the helpers it  *)
(* calls: the hardware RNG gate, the attestation request / re-verification,*)
(* the drand round arithmetic and the offline beacon verification.         *)
(*                                                                         *)
(* Representation choices                                                  *)
(*  - Instants are milliseconds counted from the pinned chain genesis      *)
(*    (genesis_time * 1000): the absolute values (about 1.7e12) do not fit *)
(*    the model checker's integers.  roundAt/roundTime are written on that *)
(*    offset; genesis_time itself is kept for the literal scenario.        *)
(*  - Strings that the untrusted host controls (the beacon's hex fields)   *)
(*    are sequences of ASCII codes, and Buffer.from(s, 'hex') is computed  *)
(*    the way Node computes it.                                            *)
(*  - SHA-256 / BLAKE2b of a file is an injective term over the content.   *)
(*  - External tools (circom, snarkjs, solc, the NSM, the drand network)   *)
(*    are oracles whose outcome is chosen nondeterministically.            *)
(***************************************************************************)
EXTENDS Integers, Sequences, FiniteSets, TLC

(***************************************************************************)
(* Bounds of the model                                                     *)
(***************************************************************************)
\* number of clock advances in one run
MaxTicks == 3
\* length in bytes of a drand signature in the model (96 in reality)
SigLen == 1
\* longest body of a file sent over the framed transport, in bytes
MaxBody == 2

(***************************************************************************)
(* Pinned constants                                                        *)
(***************************************************************************)
\* DEFAULT_CHAIN_INFO.period, seconds
period == 30
\* DEFAULT_CHAIN_INFO.genesis_time, seconds
genesis_time == 1595431050
\* the offset added to the attestation timestamp: 90 * 1000 ms
BeaconDelayMs == 90 * 1000
\* numIterationsExp passed to zKey.beacon
BeaconIterations == 10
\* COSE_ALG_ECDSA_SHA384
COSE_ALG_ECDSA_SHA384 == 0 - 35
\* the amounts by which the clock may advance in one step (ms)
TickSteps == {29999, 30000, 90000}

(***************************************************************************)
(* Hex strings as Node handles them                                        *)
(***************************************************************************)
IsHexChar(c) ==
    \/ (c >= 48 /\ c <= 57)
    \/ (c >= 65 /\ c <= 70)
    \/ (c >= 97 /\ c <= 102)

HexVal(c) ==
    IF c >= 48 /\ c <= 57 THEN c - 48
    ELSE IF c >= 65 /\ c <= 70 THEN c - 55
    ELSE c - 87

\* Buffer.from(s, 'hex'): decodes pairs of hex digits of either case and
\* stops at the first pair that is not two hex digits; an odd trailing
\* character is dropped.
RECURSIVE BufferFromHex(_)
BufferFromHex(s) ==
    IF Len(s) < 2 \/ ~IsHexChar(s[1]) \/ ~IsHexChar(s[2])
    THEN <<>>
    ELSE <<16 * HexVal(s[1]) + HexVal(s[2])>> \o BufferFromHex(SubSeq(s, 3, Len(s)))

HexDigit(n) == IF n < 10 THEN 48 + n ELSE 87 + n

\* buf.toString('hex') / digest('hex'): two lowercase digits per byte
RECURSIVE toStringHex(_)
toStringHex(b) ==
    IF b = <<>> THEN <<>>
    ELSE <<HexDigit(b[1] \div 16), HexDigit(b[1] % 16)>> \o toStringHex(Tail(b))

\* strict hex parsing of @noble/curves (hexToBytes): throws on an odd length
\* or on any character that is not a hex digit
NobleHexOk(s) ==
    /\ Len(s) % 2 = 0
    /\ \A i \in 1..Len(s) : IsHexChar(s[i])

\* the character c with bit k (0..7) inverted
FlipBit(c, k) ==
    IF (c \div (2 ^ k)) % 2 = 1 THEN c - 2 ^ k ELSE c + 2 ^ k

(***************************************************************************)
(* drand round arithmetic (drand-client roundAt / roundTime on the pinned  *)
(* chain), on milliseconds since genesis                                   *)
(***************************************************************************)
\* roundAt throws for an instant before the genesis
roundAtThrows(unixTimeMs) == unixTimeMs < 0

roundAt(unixTimeMs) == (unixTimeMs \div (period * 1000)) + 1

roundTime(round) == ((IF round < 0 THEN 0 ELSE round) - 1) * period * 1000

getRoundAt(unixTimeMs) == roundAt(unixTimeMs)

getRoundTime(round) == roundTime(round)

drandRoundNumber_noDelay(timestamp) == getRoundAt(timestamp)

\* const drandRoundNumber = getRoundAt(timeAttestation.timestamp + (90 * 1000))
drandRoundNumber(timestamp) == getRoundAt(timestamp + BeaconDelayMs)

(***************************************************************************)
(* The drand network                                                       *)
(***************************************************************************)
\* the bytes of the signature the network publishes for round r
DrandSig(r) == [i \in 1..SigLen |-> (171 + 16 * r + i) % 256]

\* sha256 over signature bytes (@noble/hashes), an injective byte map here
sha256(bytes) == [i \in 1..Len(bytes) |-> (3 * bytes[i] + 7) % 256]

\* JSON values of the round field
JsonNumber(v) == [t |-> "number", v |-> v]
JsonString(v) == [t |-> "string", v |-> v]

\* the beacon the network publishes for round r (lowercase hex, as served)
DrandBeacon(r) ==
    [ round              |-> JsonNumber(r),
      signature          |-> toStringHex(DrandSig(r)),
      randomness         |-> toStringHex(sha256(DrandSig(r))),
      previous_signature |-> toStringHex(DrandSig(r - 1)) ]

\* round is published (publicly known) at instant now
Published(r, now) == r >= 1 /\ roundTime(r) <= now

(***************************************************************************)
(* verifyBeacon (drand-utils.ts)                                           *)
(***************************************************************************)
\* Buffer.from(beacon.randomness, 'hex').compare(sha256(Buffer.from(beacon.signature, 'hex'))) == 0
randomnessIsValid(beacon) ==
    BufferFromHex(beacon.randomness) = sha256(BufferFromHex(beacon.signature))

\* isChainedBeacon(beacon, chainInfo) with the pinned schemeID 'pedersen-bls-chained'
isChainedBeacon(beacon) ==
    /\ beacon.previous_signature # <<>>
    /\ beacon.randomness # <<>>
    /\ beacon.signature # <<>>
    /\ beacon.round.v > 0

\* bls.verify(signature, sha256(previous_signature || round_be64), publicKey):
\* the only signature that verifies is the one the network made for that
\* message, and the network signs (signature of round-1, round) only.
blsVerify(signature, previous_signature, round) ==
    /\ BufferFromHex(signature) = DrandSig(round)
    /\ BufferFromHex(previous_signature) = DrandSig(round - 1)

roundMatches_none(beacon, expectedRound) == TRUE

\* beacon.round !== expectedRound is false
roundMatches(beacon, expectedRound) ==
    beacon.round.t = "number" /\ beacon.round.v = expectedRound

\* "true" / "false": the value returned; "throw": the promise rejects
verifyBeacon(beacon, expectedRound) ==
    IF ~roundMatches(beacon, expectedRound) THEN "false"
    ELSE IF ~randomnessIsValid(beacon) THEN "false"
    ELSE IF isChainedBeacon(beacon)
         THEN IF ~NobleHexOk(beacon.signature) THEN "throw"
              ELSE IF blsVerify(beacon.signature, beacon.previous_signature, beacon.round.v)
                   THEN "true" ELSE "false"
    ELSE "false"

(***************************************************************************)
(* Digests of files: injective terms; their hex text is the canonical      *)
(* lowercase text of the bytes                                             *)
(***************************************************************************)
\* createHash('sha256').update(x).digest(): the 32 digest bytes
sha256Bytes(x) == [sha256 |-> x]
\* digest('hex') and buf.toString('hex')
bytesHex(b) == [hex |-> b]
\* Buffer.from(h, 'hex') of a digest text
hexBytes(h) == h.hex
\* no bytes: an absent optional field, an omitted argument
NoBytes == [none |-> TRUE]
\* the value of a missing property
Undefined == [undefined |-> TRUE]

(***************************************************************************)
(* The enclave's working directory                                         *)
(***************************************************************************)
Absent == [kind |-> "absent"]
Garbage == [kind |-> "garbage"]

FileNames ==
    { "circuit.circom", "powersOfTau.ptau", "circuit_0000.zkey",
      "circuit.r1cs", "circuit_js/circuit.wasm", "circuit_0001.zkey",
      "time-attestation.cbor", "drand-beacon.json", "circuit_final.zkey",
      "verifier.sol", "verifier.creation.hex", "verifier.extcodehash.hex",
      "hashes.txt", "final-attestation.cbor", "other.bin" }

exists(f, path) == f[path] # Absent

\* readFileSync + createHash('sha256') ... digest('hex'); the caller checks exists
sha256HashOfFile(f, path) == bytesHex(sha256Bytes(f[path]))

sha256HashOfString_unordered(input) ==
    bytesHex(sha256Bytes({ input[i] : i \in DOMAIN input }))

sha256HashOfString(input) == bytesHex(sha256Bytes(input))

blake2b512HashOfFile(f, path) == [blake2b |-> f[path]]

\* fileStream = createWriteStream(join(saveDir, filename)): a received file is
\* stored under the name the sender put in the frame
RECURSIVE awaitFilesSave(_, _)
awaitFilesSave(f, frames) ==
    IF frames = <<>> THEN f
    ELSE awaitFilesSave([f EXCEPT ![frames[1].name] = frames[1].content], Tail(frames))

(***************************************************************************)
(* Hardware RNG gate (entropy.ts)                                          *)
(***************************************************************************)
IsSpace(tok) == tok \in {" ", "\n"}

RECURSIVE trimStart(_)
trimStart(s) == IF s # <<>> /\ IsSpace(s[1]) THEN trimStart(Tail(s)) ELSE s

RECURSIVE trimEnd(_)
trimEnd(s) ==
    IF s # <<>> /\ IsSpace(s[Len(s)]) THEN trimEnd(SubSeq(s, 1, Len(s) - 1)) ELSE s

\* String.prototype.trim on a text given as a sequence of tokens
trim(s) == trimEnd(trimStart(s))

sanityCheckHardwareRng_skip(rng) == TRUE

\* TRUE iff sanityCheckHardwareRng returns; FALSE iff it throws (the read of
\* rng_current throws, or the trimmed text is not 'nsm-hwrng')
sanityCheckHardwareRng(rng) == rng.readable /\ trim(rng.text) = <<"nsm-hwrng">>

\* the contents of /sys/devices/virtual/misc/hw_random/rng_current considered
RngFiles ==
    { [readable |-> TRUE,  text |-> <<"nsm-hwrng", "\n">>],
      [readable |-> TRUE,  text |-> <<"virtio_rng.0", "\n">>],
      [readable |-> TRUE,  text |-> <<"nsm-hwrng", " ", "virtio_rng.0", "\n">>],
      [readable |-> TRUE,  text |-> <<"\n">>],
      [readable |-> FALSE, text |-> <<>>] }

(***************************************************************************)
(* PTAU catalog and selection (circom-compile.ts, ptau-file-info.ts)       *)
(***************************************************************************)
\* the published Hermez file for power P
GenuinePtau(P) == [kind |-> "ptau", power |-> P, genuine |-> TRUE]

\* the maxConstraints fields of the entries 8..28 of ptauFiles
ptauMaxConstraints ==
    << 256, 512, 1024, 2048, 4096, 8192, 16384, 32768, 65536, 131072, 262144,
       524288, 1048576, 2097152, 4194304, 8388608, 16777216, 33554432,
       67108864, 134217728, 268435456 >>

\* ptauFiles[P]
ptauFiles(P) ==
    [ power |-> P, maxConstraints |-> ptauMaxConstraints[P - 7],
      blake2b |-> [blake2b |-> GenuinePtau(P)] ]

\* 1 << P on 32-bit integers: the shift count is taken modulo 32 and bit 31
\* is the sign
shiftLeft1(P) == IF P % 32 = 31 THEN (0 - 2 ^ 30) - 2 ^ 30 ELSE 2 ^ (P % 32)

RECURSIVE ptauPowerLoop_notStrict(_, _)
ptauPowerLoop_notStrict(P, n) ==
    IF shiftLeft1(P) <= n THEN ptauPowerLoop_notStrict(P + 1, n) ELSE P

\* let P = 1; while ((1 << P) < totalConstraints) P++
\* (the loop ends only for totalConstraints of at most 2^30)
RECURSIVE ptauPowerLoop(_, _)
ptauPowerLoop(P, n) ==
    IF shiftLeft1(P) < n THEN ptauPowerLoop(P + 1, n) ELSE P

\* getExpectedPtauFileInfo for a circuit of n constraints
getExpectedPtauFileInfo(n) ==
    LET P0 == ptauPowerLoop(1, n)
        P1 == IF P0 < 8 THEN 8 ELSE P0
        P2 == IF P1 > 28 THEN 28 ELSE P1
    IN ptauFiles(P2)

ptauMatches_skip(f) == TRUE

\* blake2b512HashOfFile('powersOfTau.ptau') !== expectedPtauFileInfo.blake2b is false
ptauMatches(f) ==
    blake2b512HashOfFile(f, "powersOfTau.ptau")
        = getExpectedPtauFileInfo(f["circuit.r1cs"].nConstraints).blake2b

(***************************************************************************)
(* The Groth16 library (snarkjs zKey), an oracle                           *)
(***************************************************************************)
\* zKey.verifyFromR1cs('circuit.r1cs', 'powersOfTau.ptau', zkeyName) returned true
verifyFromR1cs(f, zkeyName) ==
    /\ f[zkeyName].kind = "zkey"
    /\ f["circuit.r1cs"].kind = "r1cs"
    /\ f["powersOfTau.ptau"].kind = "ptau"
    /\ f[zkeyName].sound
    /\ f[zkeyName].circuit = f["circuit.r1cs"].circuit
    /\ f[zkeyName].power = f["powersOfTau.ptau"].power

(***************************************************************************)
(* What the untrusted host may put on the wire                             *)
(***************************************************************************)
CircuitA == [kind |-> "circom", circuit |-> "A", nConstraints |-> 1000]

\* an initial key for circuit A over the 2^10 parameters
HostZkey(sound) ==
    [ kind |-> "zkey", circuit |-> "A", power |-> 10, sound |-> sound,
      entropy |-> NoBytes, beacon |-> <<>> ]

HostBlobs ==
    { CircuitA, Garbage, GenuinePtau(10), GenuinePtau(9),
      [GenuinePtau(10) EXCEPT !.genuine = FALSE],
      HostZkey(TRUE), HostZkey(FALSE) }

\* a beacon file: the text of a JSON object
JsonFile(obj) == [kind |-> "json", obj |-> obj]

\* the texts obtained from s by inverting one bit of one character
BitFlips(s) ==
    { [s EXCEPT ![i] = FlipBit(s[i], k)] : i \in 1..Len(s), k \in 0..7 }

\* the beacons derived from the published beacon b by a change of one field
Tampered(b) ==
    { [b EXCEPT !.randomness = m] : m \in BitFlips(b.randomness) }
      \cup { [b EXCEPT !.round = JsonNumber(b.round.v + 1)],
             [b EXCEPT !.round = JsonNumber(b.round.v - 1)],
             [b EXCEPT !.round = JsonString(b.round.v)],
             [b EXCEPT !.signature = <<48, 48>>],
             [b EXCEPT !.signature = <<48, 48>>,
                       !.randomness = toStringHex(sha256(<<0>>))],
             [b EXCEPT !.signature = b.signature \o <<122>>],
             [b EXCEPT !.previous_signature = <<>>],
             [b EXCEPT !.previous_signature = <<48, 48>>] }

\* The beacon files the host can send at instant t: the signature of a round
\* is unknowable before the round is published, so the host has the
\* published beacons, anything derived from them, and garbage.
HostBeaconFiles(t) ==
    LET known == { DrandBeacon(r) : r \in { q \in 1..roundAt(t) : Published(q, t) } }
    IN  { JsonFile(b) : b \in known }
          \cup { JsonFile(m) : m \in UNION { Tampered(b) : b \in known } }
          \cup { Garbage }

(***************************************************************************)
(* State of one enclave run                                                *)
(***************************************************************************)
VARIABLES
    pc,               \* the phase about to run, or "exited"
    exitCode,         \* -1 while running, then the code given to process.exit
    log,              \* the phases entered so far, in order
    now,              \* the clock, ms since genesis
    ticks,            \* number of clock advances so far
    rngCurrent,       \* contents of .../hw_random/rng_current
    fs,               \* the working directory: file name -> content
    secretBuf,        \* const secretBuf
    secretHex,        \* let secretHex
    timeAttestation,  \* const timeAttestation (the parsed time attestation)
    beaconRandomness, \* const beaconRandomness
    commit,           \* finalAttestationNonce and hashOfHashesTxt
    attReqs,          \* requests made to the attestation issuer
    sent,             \* batches of files sent to the host
    listens,          \* ports on which a listener was opened
    received,         \* number of files received from the host
    randomDraws,      \* values returned by randomBytes
    contributeCalls,  \* randomness arguments of the calls of zKey.contribute
    beaconCalls,      \* arguments of the calls of zKey.beacon
    contributedAt     \* instant at which zKey.contribute returned

enclaveVars ==
    << pc, exitCode, log, now, ticks, rngCurrent, fs, secretBuf, secretHex,
       timeAttestation, beaconRandomness, commit, attReqs, sent, listens,
       received, randomDraws, contributeCalls, beaconCalls, contributedAt >>

\* the state of a verifier at work on one attestation document
VARIABLES
    issued,           \* the document as the issuer emitted it
    attestation,      \* the bytes handed to the verifier
    verified,         \* what verifyAttestationSignatures(attestation) returned
    parsed            \* what parseAttestationDocument(attestation) returned

attVars == << issued, attestation, verified, parsed >>

\* the state of one connection of the framed file transport
VARIABLES
    plan,             \* items of the peer's sendFiles call
    written,          \* number of files the peer has written completely
    wire,             \* bytes written by the peer and not yet delivered
    peerEnded,        \* the peer ended its side of the connection, or is lost
    spurious,         \* the bytes the driver put before the first frame
    stray,            \* a later peer has connected to the same server
    rcv               \* the connection handler of awaitFiles, its files, its promise

frameVars == << plan, written, wire, peerEnded, spurious, stray, rcv >>

\* one call of getExpectedPtauFileInfo
VARIABLES
    totalConstraints, \* the number of constraints r1cs.info reports
    ptauFileInfo      \* what getExpectedPtauFileInfo returned

ptauVars == << totalConstraints, ptauFileInfo >>

\* the state of one run of the host (run-host-ceremony.ts)
VARIABLES
    hostPc,           \* the step run() is at, "exited" once the process has ended
    hostExitCode,     \* the code the host process ended with, -1 while it runs
    exitedBy,         \* which call of process.exit ended the host
    hostLog,          \* the steps run() has completed, in order
    hostClock,        \* Date.now() on the host, in ms since the genesis of drand
    circuit,          \* the compiled circuit: its number of constraints
    expectedPtauFileInfo, \* the PTAU descriptor the host selected
    hostFs,           \* the files of the host: file name -> content
    enclave,          \* the enclave and its console as the host sees them
    artifacts,        \* names of the files received in ceremony/artifacts, in order
    drandRoundNumber_host, \* const drandRoundNumber of the host
    hostBeacon,       \* const beacon
    fetches,          \* the calls of getBeacon: the round and the instant
    hostSent          \* the batches of files the host sent to the enclave

hostVars ==
    << hostPc, hostExitCode, exitedBy, hostLog, hostClock, circuit,
       expectedPtauFileInfo, hostFs, enclave, artifacts, drandRoundNumber_host,
       hostBeacon, fetches, hostSent >>

\* the two processes of one ceremony, seen at their four file transfers
VARIABLES
    peer,             \* per process: the step of run() it is at and where in it
    peerExit,         \* per process: the code it ended with, -1 while it runs
    listening,        \* the ports on which a VsockServer listens
    link,             \* per transfer: the state of its connection
    connects,         \* the calls of sock.connect: the port, and whether a server listened
    oracleFailed      \* an external tool, library or service has failed

peerVars == << peer, peerExit, listening, link, connects, oracleFailed >>

\* the loop of getExpectedPtauFileInfo, one iteration at a time
VARIABLES
    loopCount,        \* const totalConstraints
    loopP,            \* let P
    loopPc            \* "test" while the loop runs, "done" after it

loopVars == << loopCount, loopP, loopPc >>

\* one call of getAttestationDoc
VARIABLES
    docArgs,          \* the arguments nonce and userData
    docPc,            \* where the call is
    docChild,         \* the helper process: what it wrote, how it ended
    docChunks,        \* const chunks: Buffer[]
    docFile,          \* the content of the file named filename
    docResult         \* how the promise of getAttestationDoc settled

docVars == << docArgs, docPc, docChild, docChunks, docFile, docResult >>

vars == << enclaveVars, attVars, frameVars, ptauVars, hostVars, peerVars, loopVars, docVars >>

(***************************************************************************)
(* Attestation documents (attestation.ts)                                  *)
(***************************************************************************)
\* length in bytes of a byte string; digests and keys are 32 bytes long
byteLength(b) == IF "len" \in DOMAIN b THEN b.len ELSE 32

\* a byte string of n bytes
Blob(n) == [blob |-> "x", len |-> n]

\* bytes that are not the ones requested
OtherBytes == [other |-> TRUE]

\* a DER certificate as crypto.X509Certificate presents it, with the key
\* whose owner signed it
X509Certificate(subject, issuer, publicKey, signedBy, validFrom, validTo) ==
    [ subject |-> subject, issuer |-> issuer, publicKey |-> publicKey,
      signedBy |-> signedBy, validFrom |-> validFrom, validTo |-> validTo,
      len |-> 600 ]

\* bytes that new crypto.X509Certificate() rejects
NotDer == [der |-> FALSE, len |-> 600]

\* the AWS Nitro Enclaves root certificate of root.pem
PINNED_ROOT_CERT ==
    X509Certificate("root", "root", "rootKey", "rootKey", 0 - 2 ^ 30, 2 ^ 30)

\* the certificate the root issued to the Nitro PKI of the region
NitroIntermediate ==
    X509Certificate("interm", "root", "intermKey", "rootKey", 0 - 2 ^ 30, 2 ^ 30)

\* the certificate of the Nitro Secure Module's signing key, issued at
\* instant t for three hours
NsmLeaf(t) ==
    X509Certificate("leaf", "interm", "nsmKey", "intermKey", t, t + 3 * 3600 * 1000)

\* a certificate somebody without the keys of the Nitro PKI can make
EvilCert(subject, issuer) ==
    X509Certificate(subject, issuer, "evilKey", "evilKey", 0 - 2 ^ 30, 2 ^ 30)

\* an ECDSA signature (r || s) made with a private key over a message
ecdsaSign(key, message) == [signer |-> key, message |-> message, len |-> 96]

\* cbor.encode(['Signature1', protectedHeaderBytes, Buffer.alloc(0), payload])
sigStructure_noProtected(att) == << "Signature1", <<>>, <<>>, att.payload >>

sigStructure(att) == << "Signature1", att.protected, <<>>, att.payload >>

\* parseAttestationDocument throws
parseThrows(att) ==
    \/ att.kind # "attestation"
    \/ LET doc == att.payload
           checkOptionalBufferThrows(name, max) ==
               doc[name] # NoBytes /\ byteLength(doc[name]) > max
           seconds == doc.timestamp \div 1000 + genesis_time
       IN  \/ doc.missing # {}
           \/ doc.module_id = ""
           \/ doc.digest # "SHA384"
           \/ seconds < 0 \/ (seconds = 0 /\ doc.timestamp % 1000 = 0)
           \/ \E i \in DOMAIN doc.pcrs :
                 \/ doc.pcrs[i].idx < 0 \/ doc.pcrs[i].idx >= 32
                 \/ byteLength(doc.pcrs[i].value) \notin {32, 48, 64}
           \/ doc.pcrs = <<>>
           \/ byteLength(doc.certificate) = 0 \/ byteLength(doc.certificate) > 1024
           \/ doc.cabundle = <<>>
           \/ \E i \in DOMAIN doc.cabundle :
                 byteLength(doc.cabundle[i]) = 0 \/ byteLength(doc.cabundle[i]) > 1024
           \/ checkOptionalBufferThrows("public_key", 1024)
           \/ checkOptionalBufferThrows("user_data", 512)
           \/ checkOptionalBufferThrows("nonce", 512)

\* the typed document returned by parseAttestationDocument
parseAttestationDocument(att) ==
    LET doc == att.payload
        optional(name) == IF doc[name] = NoBytes THEN Undefined ELSE bytesHex(doc[name])
    IN  [ module_id   |-> doc.module_id,
          digest      |-> doc.digest,
          timestamp   |-> doc.timestamp,
          pcrs        |-> [i \in DOMAIN doc.pcrs |->
                              [idx |-> doc.pcrs[i].idx, value |-> bytesHex(doc.pcrs[i].value)]],
          certificate |-> bytesHex(doc.certificate),
          cabundle    |-> [i \in DOMAIN doc.cabundle |-> bytesHex(doc.cabundle[i])],
          public_key  |-> optional("public_key"),
          user_data   |-> optional("user_data"),
          nonce       |-> optional("nonce") ]

isCertCurrentlyValid_always(cert) == TRUE

\* Date.now() lies between validFrom and validTo
isCertCurrentlyValid(cert) == now >= cert.validFrom /\ now <= cert.validTo

chainCerts_notReversed(doc) ==
    << hexBytes(doc.certificate) >>
        \o [i \in 1..Len(doc.cabundle) |-> hexBytes(doc.cabundle[i])]

\* [leafCert, ...[...doc.cabundle].reverse()]
chainCerts(doc) ==
    << hexBytes(doc.certificate) >>
        \o [i \in 1..Len(doc.cabundle) |->
               hexBytes(doc.cabundle[Len(doc.cabundle) + 1 - i])]

\* TRUE iff the function returns true; every throw inside is caught and
\* turned into false
verifyAttestationSignatures(att) ==
    ~(\/ att.kind # "attestation"
      \/ att.protected.alg # COSE_ALG_ECDSA_SHA384
      \/ parseThrows(att)
      \/ LET chain == chainCerts(parseAttestationDocument(att))
             n == Len(chain)
             leafCert == chain[1]
             rootCert == chain[n]
         IN  \/ \E i \in 1..n : "subject" \notin DOMAIN chain[i]
             \/ rootCert # PINNED_ROOT_CERT
             \/ \E i \in 1..(n - 1) :
                   \/ chain[i].issuer # chain[i + 1].subject
                   \/ ~isCertCurrentlyValid(chain[i])
                   \/ chain[i].signedBy # chain[i + 1].publicKey
             \/ ~isCertCurrentlyValid(rootCert)
             \/ att.signature.len % 2 # 0
             \/ att.signature.signer # leafCert.publicKey
             \/ att.signature.message # sigStructure(att))

\* the payload of a document: a CBOR map
Payload(nonce, userData, publicKey, t, certificate, cabundle) ==
    [ module_id   |-> "i-0123456789abcdef0-enc0123456789abcdef",
      digest      |-> "SHA384",
      timestamp   |-> t,
      pcrs        |-> << [idx |-> 0, value |-> Blob(48)] >>,
      certificate |-> certificate,
      cabundle    |-> cabundle,
      public_key  |-> publicKey,
      user_data   |-> userData,
      nonce       |-> nonce,
      missing     |-> {} ]

\* the COSE_Sign1 structure over a payload, signed with a private key
CoseSign1(alg, payload, key) ==
    LET unsigned == [ kind |-> "attestation",
                      protected |-> [alg |-> alg, extra |-> 0],
                      payload |-> payload,
                      signature |-> NoBytes ]
    IN  [unsigned EXCEPT !.signature = ecdsaSign(key, sigStructure(unsigned))]

\* a document the Nitro Secure Module signed for (nonce, userData) at instant t
SignedDoc(nonce, userData, t) ==
    CoseSign1(COSE_ALG_ECDSA_SHA384,
              Payload(nonce, userData, NoBytes, t, NsmLeaf(t),
                      << PINNED_ROOT_CERT, NitroIntermediate >>),
              "nsmKey")

\* What /bin/get-attestation may leave on stdout for a request (nonce,
\* userData) made at instant t.  A document that verifies and carries the
\* requested nonce was signed for this request, so it bears the instant of
\* issue; documents that verify but carry another nonce are older ones.
IssuerDocs(nonce, userData, t) ==
    LET good == SignedDoc(nonce, userData, t)
        bundle == << PINNED_ROOT_CERT, NitroIntermediate >>
    IN  { good,
          SignedDoc(nonce, OtherBytes, t),
          SignedDoc(nonce, IF userData = NoBytes THEN OtherBytes ELSE NoBytes, t),
          SignedDoc(OtherBytes, userData, 0),
          SignedDoc(NoBytes, userData, 0),
          CoseSign1(0 - 7, good.payload, "nsmKey"),
          CoseSign1(COSE_ALG_ECDSA_SHA384,
                    Payload(nonce, userData, NoBytes, t, EvilCert("leaf", "interm"),
                            << EvilCert("root", "root"), EvilCert("interm", "root") >>), "evilKey"),
          CoseSign1(COSE_ALG_ECDSA_SHA384,
                    Payload(nonce, userData, NoBytes, t,
                            NsmLeaf(t - 3 * 3600 * 1000 - 1), bundle), "nsmKey"),
          [good EXCEPT !.payload.timestamp = t + 1],
          [good EXCEPT !.payload.nonce = OtherBytes],
          Garbage }


PhaseOrder ==
    << "RNG_CHECK", "AWAIT_INPUTS", "COMPILE", "PTAU_CHECK", "VERIFY_INITIAL",
       "CONTRIBUTE", "VERIFY_INTERMEDIATE", "TIME_ATTESTATION",
       "SHIP_ATTESTATION", "AWAIT_BEACON", "VERIFY_BEACON", "APPLY_BEACON",
       "VERIFY_FINAL", "EXPORT_VERIFIER", "COMMIT", "FINAL_ATTESTATION",
       "SHIP_ARTIFACTS" >>

PhaseIndex(p) == CHOOSE i \in 1..Len(PhaseOrder) : PhaseOrder[i] = p

NextPhase_skipVerifyFinal(p) ==
    IF p = "APPLY_BEACON" THEN "EXPORT_VERIFIER"
    ELSE IF p = "SHIP_ARTIFACTS" THEN "exited"
    ELSE PhaseOrder[PhaseIndex(p) + 1]

\* the statement that follows phase p in run(); process.exit(0) ends the last
NextPhase(p) ==
    IF p = "SHIP_ARTIFACTS" THEN "exited" ELSE PhaseOrder[PhaseIndex(p) + 1]

\* phase p ran to its end
Completes(p) ==
    /\ pc' = NextPhase(p)
    /\ exitCode' = IF p = "SHIP_ARTIFACTS" THEN 0 ELSE exitCode
    /\ log' = Append(log, p)

\* an exception leaves run(): run().catch((e) => { ...; process.exit(1) })
Throws(p) ==
    /\ pc' = "exited"
    /\ exitCode' = 1
    /\ log' = Append(log, p)

Unset == [unset |-> TRUE]
\* Buffer of 32 zero bytes
ZeroBuf == [zeros |-> 32]
\* ''.padEnd(64, '\0')
NulString == [nuls |-> 64]
\* the values randomBytes(32) may return
Secrets == { [random |-> 1] }

EnclavePort == "ENCLAVE_LISTEN_PORT"
EnclavePort1 == "ENCLAVE_LISTEN_PORT + 1"
HostPort == "HOST_LISTEN_PORT"
HostPort1 == "HOST_LISTEN_PORT + 1"

\* the enclave process before run() starts
EnclaveStart ==
    /\ pc = "RNG_CHECK"
    /\ exitCode = -1
    /\ log = <<>>
    /\ ticks = 0
    /\ fs = [n \in FileNames |-> Absent]
    /\ secretBuf = Unset
    /\ secretHex = Unset
    /\ timeAttestation = Unset
    /\ beaconRandomness = Unset
    /\ commit = Unset
    /\ attReqs = <<>>
    /\ sent = <<>>
    /\ listens = <<>>
    /\ received = 0
    /\ randomDraws = <<>>
    /\ contributeCalls = <<>>
    /\ beaconCalls = <<>>
    /\ contributedAt = -1

\* no attestation document is under verification
AttIdle ==
    /\ issued = Unset
    /\ attestation = Unset
    /\ verified = Unset
    /\ parsed = Unset

\* no connection is under way
FrameIdle ==
    /\ plan = <<>>
    /\ written = 0
    /\ wire = <<>>
    /\ peerEnded = FALSE
    /\ spurious = <<>>
    /\ stray = FALSE
    /\ rcv = Unset

\* no selection of a PTAU file is under way
PtauIdle ==
    /\ totalConstraints = 0
    /\ ptauFileInfo = Unset

\* no pair of processes is under way
PeersIdle ==
    /\ peer = Unset
    /\ peerExit = Unset
    /\ listening = {}
    /\ link = Unset
    /\ connects = <<>>
    /\ oracleFailed = FALSE

\* no loop of getExpectedPtauFileInfo is under way
LoopIdle ==
    /\ loopCount = 0
    /\ loopP = 0
    /\ loopPc = "idle"

\* no call of getAttestationDoc is under way
DocIdle ==
    /\ docArgs = Unset
    /\ docPc = "idle"
    /\ docChild = Unset
    /\ docChunks = <<>>
    /\ docFile = Unset
    /\ docResult = Unset

\* no host runs
HostIdle ==
    /\ hostPc = "idle"
    /\ hostExitCode = -1
    /\ exitedBy = "none"
    /\ hostLog = <<>>
    /\ hostClock = 0
    /\ circuit = Unset
    /\ expectedPtauFileInfo = Unset
    /\ hostFs = Unset
    /\ enclave = Unset
    /\ artifacts = <<>>
    /\ drandRoundNumber_host = -1
    /\ hostBeacon = Unset
    /\ fetches = <<>>
    /\ hostSent = <<>>

Init ==
    /\ EnclaveStart
    /\ now = 0
    /\ rngCurrent \in RngFiles
    /\ AttIdle
    /\ FrameIdle
    /\ PtauIdle
    /\ HostIdle
    /\ PeersIdle
    /\ LoopIdle
    /\ DocIdle

\* time passes while the enclave waits for the library, the issuer or the host
Tick ==
    /\ pc \in {"CONTRIBUTE", "TIME_ATTESTATION", "AWAIT_BEACON"}
    /\ ticks < MaxTicks
    /\ \E d \in TickSteps : now' = now + d
    /\ ticks' = ticks + 1
    /\ UNCHANGED << pc, exitCode, log, rngCurrent, fs, secretBuf, secretHex,
                    timeAttestation, beaconRandomness, commit, attReqs, sent,
                    listens, received, randomDraws, contributeCalls,
                    beaconCalls, contributedAt >>
    /\ UNCHANGED << attVars, frameVars, ptauVars, hostVars, peerVars, loopVars, docVars >>

\* sanityCheckHardwareRng()
RngCheck ==
    /\ pc = "RNG_CHECK"
    /\ IF sanityCheckHardwareRng(rngCurrent)
       THEN Completes("RNG_CHECK") ELSE Throws("RNG_CHECK")
    /\ UNCHANGED << now, ticks, rngCurrent, fs, secretBuf, secretHex,
                    timeAttestation, beaconRandomness, commit, attReqs, sent,
                    listens, received, randomDraws, contributeCalls,
                    beaconCalls, contributedAt >>
    /\ UNCHANGED << attVars, frameVars, ptauVars, hostVars, peerVars, loopVars, docVars >>

\* await awaitFiles({ port: ENCLAVE_LISTEN_PORT, items: [3 items] })
AwaitInputs ==
    /\ pc = "AWAIT_INPUTS"
    /\ listens' = Append(listens, EnclavePort)
    /\ \/ /\ \E n1 \in {"circuit.circom", "other.bin"},
                n2 \in {"powersOfTau.ptau", "other.bin"},
                n3 \in {"circuit_0000.zkey", "other.bin"},
                c1 \in HostBlobs, c2 \in HostBlobs, c3 \in HostBlobs :
                fs' = awaitFilesSave(fs, << [name |-> n1, content |-> c1],
                                            [name |-> n2, content |-> c2],
                                            [name |-> n3, content |-> c3] >>)
          /\ received' = received + 3
          /\ Completes("AWAIT_INPUTS")
       \/ /\ UNCHANGED << fs, received >>
          /\ Throws("AWAIT_INPUTS")
    /\ UNCHANGED << now, ticks, rngCurrent, secretBuf, secretHex,
                    timeAttestation, beaconRandomness, commit, attReqs, sent,
                    randomDraws, contributeCalls, beaconCalls, contributedAt >>
    /\ UNCHANGED << attVars, frameVars, ptauVars, hostVars, peerVars, loopVars, docVars >>

\* await compileCircomCircuit('circuit.circom') and the two logged digests
Compile ==
    /\ pc = "COMPILE"
    /\ IF fs["circuit.circom"].kind = "circom"
       THEN /\ fs' = [fs EXCEPT
                 !["circuit.r1cs"] =
                     [ kind |-> "r1cs", circuit |-> fs["circuit.circom"].circuit,
                       nConstraints |-> fs["circuit.circom"].nConstraints ],
                 !["circuit_js/circuit.wasm"] =
                     [ kind |-> "wasm", circuit |-> fs["circuit.circom"].circuit ]]
            /\ Completes("COMPILE")
       ELSE /\ UNCHANGED fs
            /\ Throws("COMPILE")
    /\ UNCHANGED << now, ticks, rngCurrent, secretBuf, secretHex,
                    timeAttestation, beaconRandomness, commit, attReqs, sent,
                    listens, received, randomDraws, contributeCalls,
                    beaconCalls, contributedAt >>
    /\ UNCHANGED << attVars, frameVars, ptauVars, hostVars, peerVars, loopVars, docVars >>

\* getExpectedPtauFileInfo + the blake2b comparison
PtauCheck ==
    /\ pc = "PTAU_CHECK"
    /\ IF exists(fs, "powersOfTau.ptau") /\ ptauMatches(fs)
       THEN Completes("PTAU_CHECK") ELSE Throws("PTAU_CHECK")
    /\ UNCHANGED << now, ticks, rngCurrent, fs, secretBuf, secretHex,
                    timeAttestation, beaconRandomness, commit, attReqs, sent,
                    listens, received, randomDraws, contributeCalls,
                    beaconCalls, contributedAt >>
    /\ UNCHANGED << attVars, frameVars, ptauVars, hostVars, peerVars, loopVars, docVars >>

\* zKey.verifyFromR1cs(..., 'circuit_0000.zkey')
VerifyInitial ==
    /\ pc = "VERIFY_INITIAL"
    /\ IF verifyFromR1cs(fs, "circuit_0000.zkey")
       THEN Completes("VERIFY_INITIAL") ELSE Throws("VERIFY_INITIAL")
    /\ UNCHANGED << now, ticks, rngCurrent, fs, secretBuf, secretHex,
                    timeAttestation, beaconRandomness, commit, attReqs, sent,
                    listens, received, randomDraws, contributeCalls,
                    beaconCalls, contributedAt >>
    /\ UNCHANGED << attVars, frameVars, ptauVars, hostVars, peerVars, loopVars, docVars >>

\* randomBytes(32), toString('hex'), fill(0), zKey.contribute, reassignment of secretHex
Contribute ==
    /\ pc = "CONTRIBUTE"
    /\ \E s \in Secrets :
         /\ randomDraws' = Append(randomDraws, s)
         /\ secretBuf' = ZeroBuf
         /\ contributeCalls' = Append(contributeCalls, bytesHex(s))
         /\ \/ /\ \E snd \in BOOLEAN :
                    fs' = [fs EXCEPT !["circuit_0001.zkey"] =
                              [fs["circuit_0000.zkey"] EXCEPT
                                   !.entropy = bytesHex(s), !.sound = snd]]
               /\ secretHex' = NulString
               /\ contributedAt' = now
               /\ Completes("CONTRIBUTE")
            \/ /\ secretHex' = bytesHex(s)
               /\ UNCHANGED << fs, contributedAt >>
               /\ Throws("CONTRIBUTE")
    /\ UNCHANGED << now, ticks, rngCurrent, timeAttestation, beaconRandomness,
                    commit, attReqs, sent, listens, received, beaconCalls >>
    /\ UNCHANGED << attVars, frameVars, ptauVars, hostVars, peerVars, loopVars, docVars >>

\* zKey.verifyFromR1cs(..., 'circuit_0001.zkey')
VerifyIntermediate ==
    /\ pc = "VERIFY_INTERMEDIATE"
    /\ IF verifyFromR1cs(fs, "circuit_0001.zkey")
       THEN Completes("VERIFY_INTERMEDIATE") ELSE Throws("VERIFY_INTERMEDIATE")
    /\ UNCHANGED << now, ticks, rngCurrent, fs, secretBuf, secretHex,
                    timeAttestation, beaconRandomness, commit, attReqs, sent,
                    listens, received, randomDraws, contributeCalls,
                    beaconCalls, contributedAt >>
    /\ UNCHANGED << attVars, frameVars, ptauVars, hostVars, peerVars, loopVars, docVars >>

timeAttestationOk_noNonce(att, timeAttestationNonce) ==
    verifyAttestationSignatures(att)

\* neither of the two throws after the time attestation was received is taken
timeAttestationOk(att, timeAttestationNonce) ==
    /\ verifyAttestationSignatures(att)
    /\ parseAttestationDocument(att).nonce = timeAttestationNonce

\* the request put to /bin/get-attestation by getAttestationDoc(filename, nonce, userData)
AttestationRequest(filename, nonce, userData, t) ==
    [ file |-> filename, nonce |-> nonce, user_data |-> userData, at |-> t ]

timeAttestationNonce_0000(f) == sha256HashOfFile(f, "circuit_0000.zkey")

\* const timeAttestationNonce: string = sha256HashOfFile('circuit_0001.zkey')
timeAttestationNonce(f) == sha256HashOfFile(f, "circuit_0001.zkey")

\* getAttestationDoc('time-attestation.cbor', nonce) and the local re-verification
TimeAttestation ==
    /\ pc = "TIME_ATTESTATION"
    /\ LET nonceHex == timeAttestationNonce(fs)
           nonce == hexBytes(nonceHex)
       IN  /\ attReqs' = Append(attReqs,
                 AttestationRequest("time-attestation.cbor", nonce, NoBytes, now))
           /\ \/ \E att \in IssuerDocs(nonce, NoBytes, now) :
                   /\ fs' = [fs EXCEPT !["time-attestation.cbor"] = att]
                   /\ IF timeAttestationOk(att, nonceHex)
                      THEN /\ timeAttestation' = parseAttestationDocument(att)
                           /\ Completes("TIME_ATTESTATION")
                      ELSE /\ UNCHANGED timeAttestation
                           /\ Throws("TIME_ATTESTATION")
              \/ /\ UNCHANGED << fs, timeAttestation >>
                 /\ Throws("TIME_ATTESTATION")
    /\ UNCHANGED << now, ticks, rngCurrent, secretBuf, secretHex,
                    beaconRandomness, commit, sent, listens, received,
                    randomDraws, contributeCalls, beaconCalls, contributedAt >>
    /\ UNCHANGED << attVars, frameVars, ptauVars, hostVars, peerVars, loopVars, docVars >>

\* the batch sendFiles puts on one connection
Batch(port, names) ==
    [ port |-> port,
      files |-> [i \in 1..Len(names) |-> [name |-> names[i], content |-> fs[names[i]]]] ]

\* await sendFiles({ items: [time-attestation.cbor], port: HOST_LISTEN_PORT })
ShipAttestation ==
    /\ pc = "SHIP_ATTESTATION"
    /\ \/ /\ sent' = Append(sent, Batch(HostPort, <<"time-attestation.cbor">>))
          /\ Completes("SHIP_ATTESTATION")
       \/ /\ UNCHANGED sent
          /\ Throws("SHIP_ATTESTATION")
    /\ UNCHANGED << now, ticks, rngCurrent, fs, secretBuf, secretHex,
                    timeAttestation, beaconRandomness, commit, attReqs,
                    listens, received, randomDraws, contributeCalls,
                    beaconCalls, contributedAt >>
    /\ UNCHANGED << attVars, frameVars, ptauVars, hostVars, peerVars, loopVars, docVars >>

\* items: [{ expectedName: 'drand-beacon.json', saveDir: '.' }]
beaconItems == << "drand-beacon.json" >>

\* the frames the host may send at instant t: the name and the content are
\* the host's choice
BeaconFrames(t) ==
    { [name |-> n, content |-> c] :
         n \in {"drand-beacon.json", "circuit_0001.zkey", "other.bin"},
         c \in HostBeaconFiles(t) \cup {HostZkey(TRUE)} }

\* await awaitFiles({ items: [drand-beacon.json], port: ENCLAVE_LISTEN_PORT + 1 })
AwaitBeacon ==
    /\ pc = "AWAIT_BEACON"
    /\ listens' = Append(listens, EnclavePort1)
    /\ \/ /\ \E frames \in [1..Len(beaconItems) -> BeaconFrames(now)] :
                fs' = awaitFilesSave(fs, frames)
          /\ received' = received + Len(beaconItems)
          /\ Completes("AWAIT_BEACON")
       \/ /\ UNCHANGED << fs, received >>
          /\ Throws("AWAIT_BEACON")
    /\ UNCHANGED << now, ticks, rngCurrent, secretBuf, secretHex,
                    timeAttestation, beaconRandomness, commit, attReqs, sent,
                    randomDraws, contributeCalls, beaconCalls, contributedAt >>
    /\ UNCHANGED << attVars, frameVars, ptauVars, hostVars, peerVars, loopVars, docVars >>

\* JSON.parse(readFileSync('drand-beacon.json')) and verifyBeacon(drandBeacon, drandRoundNumber)
VerifyBeacon ==
    /\ pc = "VERIFY_BEACON"
    /\ IF /\ fs["drand-beacon.json"].kind = "json"
          /\ verifyBeacon(fs["drand-beacon.json"].obj,
                          drandRoundNumber(timeAttestation.timestamp)) = "true"
       THEN /\ beaconRandomness' = fs["drand-beacon.json"].obj.randomness
            /\ Completes("VERIFY_BEACON")
       ELSE /\ UNCHANGED beaconRandomness
            /\ Throws("VERIFY_BEACON")
    /\ UNCHANGED << now, ticks, rngCurrent, fs, secretBuf, secretHex,
                    timeAttestation, commit, attReqs, sent, listens, received,
                    randomDraws, contributeCalls, beaconCalls, contributedAt >>
    /\ UNCHANGED << attVars, frameVars, ptauVars, hostVars, peerVars, loopVars, docVars >>

\* zKey.beacon('circuit_0001.zkey', 'circuit_final.zkey', label, beaconRandomness, 10)
ApplyBeacon ==
    /\ pc = "APPLY_BEACON"
    /\ beaconCalls' = Append(beaconCalls,
           [ zkey |-> fs["circuit_0001.zkey"], randomness |-> beaconRandomness,
             iterations |-> BeaconIterations, at |-> now ])
    /\ \/ /\ \E snd \in BOOLEAN :
               fs' = [fs EXCEPT !["circuit_final.zkey"] =
                         [fs["circuit_0001.zkey"] EXCEPT
                              !.beacon = BufferFromHex(beaconRandomness),
                              !.sound = snd]]
          /\ Completes("APPLY_BEACON")
       \/ /\ UNCHANGED fs
          /\ Throws("APPLY_BEACON")
    /\ UNCHANGED << now, ticks, rngCurrent, secretBuf, secretHex,
                    timeAttestation, beaconRandomness, commit, attReqs, sent,
                    listens, received, randomDraws, contributeCalls,
                    contributedAt >>
    /\ UNCHANGED << attVars, frameVars, ptauVars, hostVars, peerVars, loopVars, docVars >>

\* zKey.verifyFromR1cs(..., 'circuit_final.zkey')
VerifyFinal ==
    /\ pc = "VERIFY_FINAL"
    /\ IF verifyFromR1cs(fs, "circuit_final.zkey")
       THEN Completes("VERIFY_FINAL") ELSE Throws("VERIFY_FINAL")
    /\ UNCHANGED << now, ticks, rngCurrent, fs, secretBuf, secretHex,
                    timeAttestation, beaconRandomness, commit, attReqs, sent,
                    listens, received, randomDraws, contributeCalls,
                    beaconCalls, contributedAt >>
    /\ UNCHANGED << attVars, frameVars, ptauVars, hostVars, peerVars, loopVars, docVars >>

\* createSolidityVerifierContract and compileVerifier
ExportVerifier ==
    /\ pc = "EXPORT_VERIFIER"
    /\ LET sol == [kind |-> "sol", of |-> fs["circuit_final.zkey"]]
       IN  \/ /\ fs' = [fs EXCEPT
                    !["verifier.sol"] = sol,
                    !["verifier.creation.hex"] = [kind |-> "creation", of |-> sol],
                    !["verifier.extcodehash.hex"] = [kind |-> "extcodehash", of |-> sol]]
              /\ Completes("EXPORT_VERIFIER")
           \/ /\ fs' = [fs EXCEPT !["verifier.sol"] = sol]
              /\ Throws("EXPORT_VERIFIER")
           \/ /\ UNCHANGED fs
              /\ Throws("EXPORT_VERIFIER")
    /\ UNCHANGED << now, ticks, rngCurrent, secretBuf, secretHex,
                    timeAttestation, beaconRandomness, commit, attReqs, sent,
                    listens, received, randomDraws, contributeCalls,
                    beaconCalls, contributedAt >>
    /\ UNCHANGED << attVars, frameVars, ptauVars, hostVars, peerVars, loopVars, docVars >>

filesToCommit ==
    << "circuit.circom", "powersOfTau.ptau", "circuit_0000.zkey",
       "circuit.r1cs", "circuit_js/circuit.wasm", "time-attestation.cbor",
       "drand-beacon.json", "circuit_final.zkey", "verifier.sol",
       "verifier.creation.hex", "verifier.extcodehash.hex" >>

fileHashes(f) == [i \in 1..Len(filesToCommit) |-> sha256HashOfFile(f, filesToCommit[i])]

\* Array.prototype.join: the texts of lines with sep between consecutive
\* ones, none after the last.  A text is the sequence of its pieces.
RECURSIVE join_trailing(_, _)
join_trailing(lines, sep) ==
    IF lines = <<>> THEN <<>>
    ELSE lines[1] \o sep \o join_trailing(Tail(lines), sep)

RECURSIVE join(_, _)
join(lines, sep) ==
    IF lines = <<>> THEN <<>>
    ELSE IF Len(lines) = 1 THEN lines[1]
    ELSE lines[1] \o sep \o join(Tail(lines), sep)

\* fileHashes.join(""): a digest text is one piece of 64 characters
concatenated(f) == join([i \in 1..Len(filesToCommit) |-> <<fileHashes(f)[i]>>], <<>>)

finalAttestationNonce(f) == sha256HashOfString(concatenated(f))

\* a piece of literal text
Str(t) == [str |-> t]

\* hashLines after the three push calls; each line is a text
hashLines(f) ==
    [i \in 1..Len(filesToCommit) |->
        <<Str(filesToCommit[i]), Str(": "), fileHashes(f)[i]>>]
        \o << <<>>,
              <<Str("concatenated: ")>> \o concatenated(f),
              <<Str("finalAttestationNonce: "), finalAttestationNonce(f)>> >>

\* the hashing of the eleven artifacts and the writing of hashes.txt
Commit ==
    /\ pc = "COMMIT"
    /\ IF \A i \in 1..Len(filesToCommit) : exists(fs, filesToCommit[i])
       THEN /\ fs' = [fs EXCEPT !["hashes.txt"] =
                            [kind |-> "text", text |-> join(hashLines(fs), <<Str("\n")>>)]]
            /\ commit' = [ finalAttestationNonce |-> finalAttestationNonce(fs),
                           hashOfHashesTxt |-> sha256HashOfFile(fs', "hashes.txt") ]
            /\ Completes("COMMIT")
       ELSE /\ UNCHANGED << fs, commit >>
            /\ Throws("COMMIT")
    /\ UNCHANGED << now, ticks, rngCurrent, secretBuf, secretHex,
                    timeAttestation, beaconRandomness, attReqs, sent, listens,
                    received, randomDraws, contributeCalls, beaconCalls,
                    contributedAt >>
    /\ UNCHANGED << attVars, frameVars, ptauVars, hostVars, peerVars, loopVars, docVars >>

finalAttestationOk_noUserData(att, nonceHex, userDataHex) ==
    /\ verifyAttestationSignatures(att)
    /\ parseAttestationDocument(att).nonce = nonceHex

\* none of the three throws after the final attestation was received is taken
finalAttestationOk(att, nonceHex, userDataHex) ==
    /\ verifyAttestationSignatures(att)
    /\ parseAttestationDocument(att).nonce = nonceHex
    /\ parseAttestationDocument(att).user_data = userDataHex

\* getAttestationDoc('final-attestation.cbor', nonce, userData) and the local re-verification
FinalAttestation ==
    /\ pc = "FINAL_ATTESTATION"
    /\ LET nonce == hexBytes(commit.finalAttestationNonce)
           userData == hexBytes(commit.hashOfHashesTxt)
       IN  /\ attReqs' = Append(attReqs,
                 AttestationRequest("final-attestation.cbor", nonce, userData, now))
           /\ \/ \E att \in IssuerDocs(nonce, userData, now) :
                   /\ fs' = [fs EXCEPT !["final-attestation.cbor"] = att]
                   /\ IF finalAttestationOk(att, commit.finalAttestationNonce,
                                            commit.hashOfHashesTxt)
                      THEN Completes("FINAL_ATTESTATION")
                      ELSE Throws("FINAL_ATTESTATION")
              \/ /\ UNCHANGED fs
                 /\ Throws("FINAL_ATTESTATION")
    /\ UNCHANGED << now, ticks, rngCurrent, secretBuf, secretHex,
                    timeAttestation, beaconRandomness, commit, sent, listens,
                    received, randomDraws, contributeCalls, beaconCalls,
                    contributedAt >>
    /\ UNCHANGED << attVars, frameVars, ptauVars, hostVars, peerVars, loopVars, docVars >>

finalArtifacts_intermediate ==
    << "circuit.circom", "circuit.r1cs", "circuit_js/circuit.wasm",
       "circuit_0001.zkey", "verifier.sol", "verifier.creation.hex",
       "verifier.extcodehash.hex", "hashes.txt", "final-attestation.cbor" >>

finalArtifacts_reordered ==
    << "circuit.circom", "circuit.r1cs", "circuit_js/circuit.wasm",
       "circuit_final.zkey", "verifier.sol", "verifier.creation.hex",
       "verifier.extcodehash.hex", "final-attestation.cbor", "hashes.txt" >>

\* the items of the last sendFiles of the enclave
finalArtifacts ==
    << "circuit.circom", "circuit.r1cs", "circuit_js/circuit.wasm",
       "circuit_final.zkey", "verifier.sol", "verifier.creation.hex",
       "verifier.extcodehash.hex", "hashes.txt", "final-attestation.cbor" >>

\* await sendFiles({ port: HOST_LISTEN_PORT + 1, items: [9 items] }), then process.exit(0)
ShipArtifacts ==
    /\ pc = "SHIP_ARTIFACTS"
    /\ \/ /\ sent' = Append(sent, Batch(HostPort1, finalArtifacts))
          /\ Completes("SHIP_ARTIFACTS")
       \/ /\ UNCHANGED sent
          /\ Throws("SHIP_ARTIFACTS")
    /\ UNCHANGED << now, ticks, rngCurrent, fs, secretBuf, secretHex,
                    timeAttestation, beaconRandomness, commit, attReqs,
                    listens, received, randomDraws, contributeCalls,
                    beaconCalls, contributedAt >>
    /\ UNCHANGED << attVars, frameVars, ptauVars, hostVars, peerVars, loopVars, docVars >>

Next ==
    \/ Tick
    \/ RngCheck
    \/ AwaitInputs
    \/ Compile
    \/ PtauCheck
    \/ VerifyInitial
    \/ Contribute
    \/ VerifyIntermediate
    \/ TimeAttestation
    \/ ShipAttestation
    \/ AwaitBeacon
    \/ VerifyBeacon
    \/ ApplyBeacon
    \/ VerifyFinal
    \/ ExportVerifier
    \/ Commit
    \/ FinalAttestation
    \/ ShipArtifacts

Spec == Init /\ [][Next]_vars

(***************************************************************************)
(* A verifier at work on one attestation document                          *)
(***************************************************************************)
\* the clock of the verifier when it looks at a document issued at instant 0:
\* before the issue, at the issue, at the last and after the last instant of
\* the leaf certificate, and after the last instant of the root certificate
AttTimes == { 0 - 1, 0, 3 * 3600 * 1000, 3 * 3600 * 1000 + 1, 2 ^ 30 + 1 }

\* the documents the Nitro Secure Module issues at instant 0: a nonce of up
\* to 64 bytes, user data of up to 512 bytes, a public key of up to 1024
IssuedDocs ==
    { CoseSign1(COSE_ALG_ECDSA_SHA384,
                Payload(nonce, userData, publicKey, 0, NsmLeaf(0),
                        << PINNED_ROOT_CERT, NitroIntermediate >>),
                "nsmKey") :
        nonce \in { NoBytes, sha256Bytes("circuit_0001.zkey"), Blob(64) },
        userData \in { NoBytes, Blob(512) },
        publicKey \in { NoBytes, Blob(1024) } }

\* the documents that differ from att in one field of the payload, in the
\* protected header, or in the signature
Tamperings(att) ==
    { [att EXCEPT !.payload.timestamp = @ + 1],
      [att EXCEPT !.payload.nonce = OtherBytes],
      [att EXCEPT !.payload.nonce = Blob(65)],
      [att EXCEPT !.payload.nonce = Blob(512)],
      [att EXCEPT !.payload.nonce = Blob(513)],
      [att EXCEPT !.payload.user_data = OtherBytes],
      [att EXCEPT !.payload.user_data = Blob(513)],
      [att EXCEPT !.payload.public_key = Blob(1023)],
      [att EXCEPT !.payload.public_key = Blob(1025)],
      [att EXCEPT !.payload.pcrs = << [idx |-> 1, value |-> Blob(48)] >>],
      [att EXCEPT !.payload.pcrs = << [idx |-> 32, value |-> Blob(48)] >>],
      [att EXCEPT !.payload.pcrs = << [idx |-> 0, value |-> Blob(47)] >>],
      [att EXCEPT !.payload.pcrs = << >>],
      [att EXCEPT !.payload.certificate = EvilCert("leaf", "interm")],
      [att EXCEPT !.payload.certificate = NotDer],
      [att EXCEPT !.payload.certificate = [NsmLeaf(0) EXCEPT !.len = 1025]],
      [att EXCEPT !.payload.cabundle = << EvilCert("root", "root"), NitroIntermediate >>],
      [att EXCEPT !.payload.cabundle = << PINNED_ROOT_CERT, EvilCert("interm", "root") >>],
      [att EXCEPT !.payload.cabundle = << NitroIntermediate, PINNED_ROOT_CERT >>],
      [att EXCEPT !.payload.cabundle = << PINNED_ROOT_CERT >>],
      [att EXCEPT !.payload.cabundle = << >>],
      [att EXCEPT !.payload.module_id = ""],
      [att EXCEPT !.payload.digest = "SHA256"],
      [att EXCEPT !.payload.missing = {"pcrs"}],
      [att EXCEPT !.signature.signer = "nobody"],
      [att EXCEPT !.signature.signer = "evilKey"],
      [att EXCEPT !.signature.len = 95],
      [att EXCEPT !.protected.alg = 0 - 7],
      [att EXCEPT !.protected.extra = 1] }

\* the documents somebody without the keys of the Nitro PKI can make out of
\* att and sign
Forgeries(att) ==
    { CoseSign1(COSE_ALG_ECDSA_SHA384,
                [att.payload EXCEPT !.certificate = EvilCert("leaf", "interm"),
                                    !.cabundle = << EvilCert("root", "root"), EvilCert("interm", "root") >>],
                "evilKey"),
      CoseSign1(COSE_ALG_ECDSA_SHA384,
                [att.payload EXCEPT !.certificate = EvilCert("leaf", "interm")], "evilKey"),
      CoseSign1(COSE_ALG_ECDSA_SHA384,
                [att.payload EXCEPT !.certificate = EvilCert("leaf", "interm"),
                                    !.cabundle = << PINNED_ROOT_CERT, EvilCert("interm", "root") >>],
                "evilKey"),
      CoseSign1(COSE_ALG_ECDSA_SHA384,
                [att.payload EXCEPT !.certificate = PINNED_ROOT_CERT,
                                    !.cabundle = << PINNED_ROOT_CERT >>],
                "evilKey"),
      Garbage }

\* verifyAttestationSignatures returned b
Returned(b) == [returned |-> b]

\* parseAttestationDocument threw
Thrown == [thrown |-> TRUE]

AttInit ==
    /\ EnclaveStart
    /\ rngCurrent = [readable |-> TRUE, text |-> <<"nsm-hwrng", "\n">>]
    /\ now \in AttTimes
    /\ issued \in IssuedDocs
    /\ attestation = issued
    /\ verified = Unset
    /\ parsed = Unset
    /\ FrameIdle
    /\ PtauIdle
    /\ HostIdle
    /\ PeersIdle
    /\ LoopIdle
    /\ DocIdle

\* the document is altered on its way to the verifier
AttTamper ==
    /\ attestation = issued
    /\ verified = Unset
    /\ parsed = Unset
    /\ attestation' \in Tamperings(issued) \ {issued}
    /\ UNCHANGED << peerVars, loopVars, docVars, ptauVars, hostVars, enclaveVars, frameVars, issued, verified, parsed >>

\* the verifier is handed a document made by somebody else
AttForge ==
    /\ attestation = issued
    /\ verified = Unset
    /\ parsed = Unset
    /\ attestation' \in Forgeries(issued)
    /\ UNCHANGED << peerVars, loopVars, docVars, ptauVars, hostVars, enclaveVars, frameVars, issued, verified, parsed >>

\* verifyAttestationSignatures(attestation)
AttVerify ==
    /\ verified = Unset
    /\ verified' = Returned(verifyAttestationSignatures(attestation))
    /\ UNCHANGED << peerVars, loopVars, docVars, ptauVars, hostVars, enclaveVars, frameVars, issued, attestation, parsed >>

\* parseAttestationDocument(attestation)
AttParse ==
    /\ parsed = Unset
    /\ parsed' = IF parseThrows(attestation) THEN Thrown
                 ELSE parseAttestationDocument(attestation)
    /\ UNCHANGED << peerVars, loopVars, docVars, ptauVars, hostVars, enclaveVars, frameVars, issued, attestation, verified >>

AttNext ==
    \/ AttTamper
    \/ AttForge
    \/ AttVerify
    \/ AttParse

AttSpec == AttInit /\ [][AttNext]_vars

(***************************************************************************)
(* Framed file transport (proto.ts, vsock-comms.ts)                        *)
(***************************************************************************)
\* buf.readUInt16LE(o)
readUInt16BE(buf, o) == buf[o + 1] * 256 + buf[o + 2]

readUInt16LE(buf, o) == buf[o + 1] + buf[o + 2] * 256

\* buf.readBigUInt64LE(o): a BigInt, kept in limbs of 24, 24 and 16 bits
readBigUInt64LE(buf, o) ==
    [ lo  |-> buf[o + 1] + buf[o + 2] * 256 + buf[o + 3] * 65536,
      mid |-> buf[o + 4] + buf[o + 5] * 256 + buf[o + 6] * 65536,
      hi  |-> buf[o + 7] + buf[o + 8] * 256 ]

\* BigInt(n) of a number below 2^24
BigInt(n) == [lo |-> n, mid |-> 0, hi |-> 0]

\* a < b on BigInts
bigLess(a, b) ==
    \/ a.hi < b.hi
    \/ a.hi = b.hi /\ a.mid < b.mid
    \/ a.hi = b.hi /\ a.mid = b.mid /\ a.lo < b.lo

headerLooksSane_sizeOnly(size, nlen) ==
    /\ bigLess(BigInt(0), size)
    /\ bigLess(size, [lo |-> 10817536, mid |-> 59604, hi |-> 0])

\* size > 0n && size < 1_000_000_000_000n && nlen > 0 && nlen <= 4096
headerLooksSane(size, nlen) ==
    /\ bigLess(BigInt(0), size)
    /\ bigLess(size, [lo |-> 10817536, mid |-> 59604, hi |-> 0])
    /\ nlen > 0
    /\ nlen <= 4096

\* basename(filePath): what follows the last '/'
RECURSIVE basename(_)
basename(filePath) ==
    IF \E i \in DOMAIN filePath : filePath[i] = 47
    THEN basename(Tail(filePath))
    ELSE filePath

\* a frame: the header (the size as 8 bytes and the length of the name as 2
\* bytes, both little-endian), the name, the body
Frame(nameBuf, body) ==
    << Len(body) % 256, (Len(body) \div 256) % 256, (Len(body) \div 65536) % 256,
       0, 0, 0, 0, 0, Len(nameBuf) % 256, (Len(nameBuf) \div 256) % 256 >>
        \o nameBuf \o body

\* if (nameBuf.length > 0xffff) throw new Error('Filename too long')
lowSendThrows(filePath) == Len(basename(filePath)) > 65535

\* the bytes lowSend writes for the file at filePath
lowSend(filePath, body) == Frame(basename(filePath), body)

\* nameBuf.toString('utf8') of ASCII bytes; any other byte decodes to U+FFFD
toStringUtf8(nameBuf) ==
    [i \in DOMAIN nameBuf |-> IF nameBuf[i] < 128 THEN nameBuf[i] ELSE 65533]

\* the components of a path between its '/'
RECURSIVE pathSplit(_)
pathSplit(p) ==
    IF p = <<>> THEN << <<>> >>
    ELSE LET r == pathSplit(Tail(p))
         IN  IF Head(p) = 47 THEN << <<>> >> \o r
             ELSE << <<Head(p)>> \o r[1] >> \o Tail(r)

\* the components of the normalized path: '.' dropped, '..' resolved
RECURSIVE pathNormalize(_, _)
pathNormalize(parts, acc) ==
    IF parts = <<>> THEN acc
    ELSE LET c == Head(parts)
             up == <<46, 46>>
         IN  IF c = <<>> \/ c = <<46>> THEN pathNormalize(Tail(parts), acc)
             ELSE IF c = up /\ acc # <<>> /\ acc[Len(acc)] # up
                  THEN pathNormalize(Tail(parts), SubSeq(acc, 1, Len(acc) - 1))
             ELSE pathNormalize(Tail(parts), Append(acc, c))

\* path.join(saveDir, filename)
pathJoin(saveDir, filename) == pathNormalize(pathSplit(filename), saveDir)

\* the directory the receiver saves into, below the working directory
SaveDir == << <<100>> >>

\* the directories that exist: the working directory, its ancestors, saveDir
IsDirectory(p) == p = SaveDir \/ \A i \in DOMAIN p : p[i] = <<46, 46>>

\* the connection handler as awaitFiles sets it up for n expected files;
\* heard is every byte the 'data' listener was given, burst the largest
\* number of files one call of the listener completed;
\* disk holds the bytes handed to the write streams, closing the callbacks
\* given to currentStream.end() with what they captured, flushed the files
\* whose callback has run
Connection(n) ==
    [ items |-> n, idx |-> 0, state |-> "hdr", pending |-> <<>>,
      fileSize |-> BigInt(0), nameLen |-> 0, received |-> 0,
      fileStream |-> <<>>, sha |-> <<>>, currentFilename |-> <<>>,
      disk |-> << >>, closing |-> <<>>, flushed |-> {},
      reported |-> <<>>, promise |-> "pending",
      sock |-> "open", offset |-> 0, tests |-> <<>>, moves |-> <<"hdr">>,
      heard |-> <<>>, burst |-> 0 ]

\* catch (err) { sock.destroy(); server.once('close', () => reject(err)); ... }
caught(m) ==
    [m EXCEPT !.sock = "destroyed",
              !.promise = IF @ = "pending" THEN "rejected" ELSE @]

\* an 'error' event of the write stream, which has no listener, ends the process
uncaught(m) ==
    [m EXCEPT !.sock = "destroyed",
              !.promise = IF @ = "pending" THEN "crashed" ELSE @]

RECURSIVE tryParseHeader(_)
tryParseHeader(m) ==
    IF Len(m.pending) < 10 THEN m
    ELSE LET possSize == readBigUInt64LE(m.pending, 0)
             possNameLen == readUInt16LE(m.pending, 8)
             test(ok) == Append(m.tests, [at |-> m.offset, ok |-> ok,
                                          bytes |-> SubSeq(m.pending, 1, 10)])
         IN  IF headerLooksSane(possSize, possNameLen)
             THEN [m EXCEPT !.fileSize = possSize,
                            !.nameLen = possNameLen,
                            !.pending = SubSeq(@, 11, Len(@)),
                            !.state = "name",
                            !.offset = @ + 10,
                            !.tests = test(TRUE),
                            !.moves = Append(@, "name")]
             ELSE tryParseHeader([m EXCEPT !.pending = Tail(@),
                                           !.offset = @ + 1,
                                           !.tests = test(FALSE)])

itemMissing_never(m) == FALSE

\* const { saveDir, expectedName } = items[idx] throws: items[idx] is undefined
itemMissing(m) == m.idx >= m.items

\* every pending byte goes to the current file
toWriteLength_all(m) == Len(m.pending)

\* Math.min(remaining, pending.length) with remaining = Number(fileSize - received)
toWriteLength(m) ==
    IF /\ m.fileSize.mid = 0
       /\ m.fileSize.hi = 0
       /\ m.fileSize.lo - m.received < Len(m.pending)
    THEN m.fileSize.lo - m.received
    ELSE Len(m.pending)

\* the while (true) loop of the 'data' listener, with the callbacks it
\* schedules
RECURSIVE dataLoop(_)
dataLoop(m) ==
    IF m.state = "hdr"
    THEN LET h == tryParseHeader(m)
         IN  IF h.state = "hdr" THEN h ELSE dataLoop(h)
    ELSE IF m.state = "name"
    THEN IF Len(m.pending) < m.nameLen THEN m
         ELSE LET filename == toStringUtf8(SubSeq(m.pending, 1, m.nameLen))
                  path == pathJoin(SaveDir, filename)
                  n == [m EXCEPT !.pending = SubSeq(@, m.nameLen + 1, Len(@)),
                                 !.offset = @ + m.nameLen,
                                 !.currentFilename = filename]
              IN  IF itemMissing(m) \/ (\E i \in DOMAIN filename : filename[i] = 0)
                  THEN caught(n)
                  ELSE IF IsDirectory(path) \/ ~IsDirectory(SubSeq(path, 1, Len(path) - 1))
                  THEN uncaught(n)
                  ELSE dataLoop([n EXCEPT !.fileStream = path,
                                          !.disk = (path :> <<>>) @@ @,
                                          !.state = "body",
                                          !.moves = Append(@, "body")])
    ELSE IF m.fileSize = BigInt(m.received)
    THEN dataLoop([m EXCEPT !.state = "hdr", !.moves = Append(@, "hdr")])
    ELSE IF m.pending = <<>> THEN m
    ELSE LET len == toWriteLength(m)
             toWrite == SubSeq(m.pending, 1, len)
             w == [m EXCEPT !.pending = SubSeq(@, len + 1, Len(@)),
                            !.offset = @ + len,
                            !.disk = [@ EXCEPT ![m.fileStream] = @ \o toWrite],
                            !.sha = @ \o toWrite,
                            !.received = @ + len]
             entry == Append(w.closing,
                           [ file |-> w.idx + 1,
                             isLast |-> (w.idx + 1 = w.items),
                             path |-> pathJoin(SaveDir, w.currentFilename),
                             size |-> w.fileSize,
                             digest |-> bytesHex(sha256Bytes(w.sha)) ])
         IN  IF w.fileSize # BigInt(w.received) THEN dataLoop(w)
             ELSE IF w.idx + 1 = w.items
             THEN [w EXCEPT !.idx = @ + 1,
                            !.closing = entry]
             ELSE dataLoop([w EXCEPT !.idx = @ + 1,
                                     !.closing = entry,
                                     !.state = "hdr",
                                     !.moves = Append(@, "hdr"),
                                     !.fileSize = BigInt(0),
                                     !.nameLen = 0,
                                     !.received = 0,
                                     !.sha = <<>>,
                                     !.fileStream = <<>>])

\* sock.on('data', (chunk) => { pending = Buffer.concat([pending, chunk]);
\* try { while (true) ... } catch ... })
onData(m, chunk) ==
    LET r == dataLoop([m EXCEPT !.pending = @ \o chunk])
        done == Len(r.closing) - Len(m.closing)
    IN  [r EXCEPT !.heard = @ \o chunk,
                  !.burst = IF done > @ THEN done ELSE @]

\* currentStream.end(() => { console.log(...); if (isLast) { sock.end();
\* server.once('close', () => resolve()); server.close() } }) for the
\* callback c
endCallback(m, c) ==
    [m EXCEPT !.flushed = @ \cup { c.file },
              !.reported = Append(@, [path |-> c.path, size |-> c.size,
                                      digest |-> c.digest]),
              !.sock = IF c.isLast /\ @ = "open" THEN "ended" ELSE @,
              !.promise = IF c.isLast /\ @ = "pending" THEN "resolved" ELSE @]

\* the files an honest peer may be asked to send: names, with or without a
\* directory in front, and bodies of 0..MaxBody bytes
SendNames == { <<97>>, <<98, 46, 99>> }

RECURSIVE Bodies(_)
Bodies(n) ==
    IF n = 0 THEN { <<>> }
    ELSE Bodies(n - 1) \cup { Append(b, x) : b \in Bodies(n - 1), x \in {0, 255} }

SendItems ==
    { [ filePath |-> dir \o name, name |-> name, body |-> body ] :
        dir \in { <<>>, <<120, 47>> }, name \in SendNames,
        body \in Bodies(MaxBody) }

\* the items of one call of sendFiles: one file, or two of different names
Plans ==
    { << a >> : a \in SendItems }
        \cup { p \in { << a, b >> : a \in SendItems, b \in SendItems } :
                   p[1].name # p[2].name }

\* the bytes the VSOCK driver may put before the first frame of a connection
SpuriousPrefixes == { <<0>>, <<1>>, <<255>>, <<255, 255>>, <<0, 0, 0>> }

\* the calls of sendFiles whose bytes follow spurious bytes: one file, not
\* empty, its name of 1, 3 or 17 bytes
PrefixedPlans ==
    { << a >> : a \in { i \in SendItems : i.body # <<>> /\ i.filePath = i.name } }
        \cup { << [ filePath |-> [i \in 1..17 |-> 97], name |-> [i \in 1..17 |-> 97],
                    body |-> <<7>> ] >> }

\* what a peer that does not run sendFiles may write
HostileStreams ==
    LET frame == Frame(<<97>>, <<7>>)
        tail == << 1, 0, 97, 7 >>
    IN  { << 0 >> \o frame,
          << 1 >> \o frame,
          << 255, 255 >> \o frame,
          frame \o frame \o frame,
          << 255 >> \o Frame([i \in 1..17 |-> 97], <<7>>) \o frame,
          Frame(<<46, 46, 47, 120>>, <<7>>),
          Frame(<<46, 46, 47, 46, 46, 47, 120>>, <<7>>),
          Frame(<<47, 120>>, <<7>>),
          Frame(<<98, 47, 99>>, <<7>>),
          Frame(<<46, 46>>, <<7>>),
          Frame(<<46, 46, 47, 100>>, <<7>>),
          Frame(<<97, 0>>, <<7>>),
          Frame(<<200>>, <<7>>),
          << 0, 0, 0, 0, 0, 0, 0, 0 >> \o tail,
          << 0, 16, 165, 212, 232, 0, 0, 0 >> \o tail,
          << 255, 15, 165, 212, 232, 0, 0, 0 >> \o tail,
          << 0, 0, 0, 0, 0, 0, 0, 1 >> \o tail,
          << 1, 0, 0, 0, 0, 0, 0, 0, 0, 0, 97, 7 >>,
          << 1, 0, 0, 0, 0, 0, 0, 0, 0, 16, 97, 7 >>,
          << 1, 0, 0, 0, 0, 0, 0, 0, 1, 16, 97, 7 >> }

FrameInit ==
    /\ EnclaveStart
    /\ rngCurrent = [readable |-> TRUE, text |-> <<"nsm-hwrng", "\n">>]
    /\ now = 0
    /\ AttIdle
    /\ PtauIdle
    /\ HostIdle
    /\ PeersIdle
    /\ LoopIdle
    /\ DocIdle
    /\ written = 0
    /\ peerEnded = FALSE
    /\ stray = FALSE
    /\ \/ /\ plan \in Plans
          /\ spurious = <<>>
          /\ wire = <<>>
          /\ rcv = Connection(Len(plan))
       \/ /\ plan \in PrefixedPlans
          /\ spurious \in SpuriousPrefixes
          /\ wire = spurious
          /\ rcv = Connection(Len(plan))
       \/ /\ plan = <<>>
          /\ spurious = <<>>
          /\ wire \in HostileStreams
          /\ rcv \in { Connection(1), Connection(2) }

\* await lowSend({ socket: sock, filePath }) for the next item of sendFiles
SendFile ==
    /\ ~peerEnded
    /\ written < Len(plan)
    /\ ~lowSendThrows(plan[written + 1].filePath)
    /\ wire' = wire \o lowSend(plan[written + 1].filePath, plan[written + 1].body)
    /\ written' = written + 1
    /\ UNCHANGED << peerVars, loopVars, docVars, ptauVars, hostVars, enclaveVars, attVars, stray, plan, peerEnded, spurious, rcv >>

\* the peer is lost while it writes the next file
SendPart ==
    /\ ~peerEnded
    /\ written < Len(plan)
    /\ ~lowSendThrows(plan[written + 1].filePath)
    /\ LET frame == lowSend(plan[written + 1].filePath, plan[written + 1].body)
       IN  \E k \in 1..(Len(frame) - 1) : wire' = wire \o SubSeq(frame, 1, k)
    /\ peerEnded' = TRUE
    /\ UNCHANGED << peerVars, loopVars, docVars, ptauVars, hostVars, enclaveVars, attVars, stray, plan, written, spurious, rcv >>

\* sock.end() of the peer, or its loss between two files; awaitFiles has no
\* listener for the end of the stream
PeerEnd ==
    /\ ~peerEnded
    /\ peerEnded' = TRUE
    /\ UNCHANGED << peerVars, loopVars, docVars, ptauVars, hostVars, enclaveVars, attVars, stray, plan, written, wire, spurious, rcv >>

\* sock.on('data', (chunk) => ...) with a chunk of the bytes in flight
Data ==
    /\ wire # <<>>
    /\ rcv.sock # "destroyed"
    /\ \E n \in { 1, 3, Len(wire) } :
          /\ n <= Len(wire)
          /\ rcv' = onData(rcv, SubSeq(wire, 1, n))
          /\ wire' = SubSeq(wire, n + 1, Len(wire))
    /\ UNCHANGED << peerVars, loopVars, docVars, ptauVars, hostVars, enclaveVars, attVars, stray, plan, written, peerEnded, spurious >>

\* another peer connects while the server listens: server.once('connection',
\* ...) has removed the only listener, nobody reads what this peer writes
StrayConnection ==
    /\ rcv.sock = "open"
    /\ ~stray
    /\ stray' = TRUE
    /\ UNCHANGED << peerVars, loopVars, docVars, ptauVars, hostVars, enclaveVars, attVars, plan, written, wire,
                    peerEnded, spurious, rcv >>

\* a write stream has flushed and the callback given to its end() runs
Flush ==
    /\ rcv.promise # "crashed"
    /\ \E k \in 1..Len(rcv.closing) :
          /\ rcv.closing[k].file \notin rcv.flushed
          /\ rcv' = endCallback(rcv, rcv.closing[k])
    /\ UNCHANGED << peerVars, loopVars, docVars, ptauVars, hostVars, enclaveVars, attVars, stray, plan, written, wire,
                    peerEnded, spurious >>

FrameNext ==
    \/ SendFile
    \/ SendPart
    \/ PeerEnd
    \/ Data
    \/ StrayConnection
    \/ Flush

FrameSpec == FrameInit /\ [][FrameNext]_vars

(***************************************************************************)
(* The selection of the PTAU file, one call                                *)
(***************************************************************************)
\* the constraint counts tried: 0, 1, 2, the two counts of the examples, and
\* the counts around every power of two of the catalog and of the two above
ConstraintCounts ==
    { 0, 1, 2, 1000, 65537 }
        \cup { 2 ^ P - 1 : P \in 8..29 }
        \cup { 2 ^ P : P \in 8..29 }
        \cup { 2 ^ P + 1 : P \in 8..28 }

PtauInit ==
    /\ EnclaveStart
    /\ rngCurrent = [readable |-> TRUE, text |-> <<"nsm-hwrng", "\n">>]
    /\ now = 0
    /\ AttIdle
    /\ FrameIdle
    /\ HostIdle
    /\ PeersIdle
    /\ LoopIdle
    /\ DocIdle
    /\ totalConstraints \in ConstraintCounts
    /\ ptauFileInfo = Unset

\* const expectedPtauFileInfo = await getExpectedPtauFileInfo(r1csFilePath)
PtauSelect ==
    /\ ptauFileInfo = Unset
    /\ ptauFileInfo' = getExpectedPtauFileInfo(totalConstraints)
    /\ UNCHANGED << enclaveVars, attVars, frameVars, hostVars, peerVars, loopVars, docVars, totalConstraints >>

PtauNext == PtauSelect

PtauSpec == PtauInit /\ [][PtauNext]_vars

(***************************************************************************)
(* The host (run-host-ceremony.ts, run-enclave.ts); the enclave is the     *)
(* host's environment                                                      *)
(***************************************************************************)
\* the default chain's getRoundAt(timestamp + (90 * 1000)) of the host
hostDrandRoundNumber_noDelay(timestamp) == getRoundAt(timestamp)

hostDrandRoundNumber(timestamp) == getRoundAt(timestamp + (90 * 1000))

drandAvailableTime_noMargin(round) == getRoundTime(round)

\* getRoundTime(drandRoundNumber) + (10 * 1000)
drandAvailableTime(round) == getRoundTime(round) + (10 * 1000)

\* the expectedName of the items of the last awaitFiles of the host
hostFinalItems ==
    << "circuit.circom", "circuit.r1cs", "circuit.wasm", "circuit_final.zkey",
       "verifier.sol", "verifier.creation.hex", "verifier.extcodehash.hex",
       "hashes.txt", "final-attestation.cbor" >>

\* basename(filePath) of the paths the enclave sends
basenameOf(filePath) ==
    IF filePath = "circuit_js/circuit.wasm" THEN "circuit.wasm" ELSE filePath

\* how the console process ended: with an exit code, or killed by a signal
\* (the 'close' listener then gets null for the code)
ConsoleCloseCodes == { [code |-> 0], [code |-> 1], [signal |-> "SIGTERM"] }

\* code ?? 0
codeOrZero(c) == IF "code" \in DOMAIN c THEN c.code ELSE 0

\* the loop of getExpectedPtauFileInfo never ends: 1 << P never reaches a
\* count above 2^30
ptauLoopDiverges(n) == \A P \in 1..64 : shiftLeft1(P) < n

\* the circuits given to the host, by their number of constraints
HostCircuits ==
    { [nConstraints |-> n] : n \in { 1000, 2 ^ 28, 2 ^ 28 + 1, 2 ^ 30 + 1 } }

\* the instants the Nitro Secure Module may put in the time attestation
AttestationInstants == { 1, 29999, 30000 }

\* what Date.now() may return on the host when the time attestation is in
HostInstants == { 98500, 100000, 128500, 130000 }

\* how long a setTimeout of 1000 ms may take
SleepSteps == { 1000, 1700 }

\* what downloadFile may leave in powersOfTau.ptau for the file of power P
Downloads(P) == { GenuinePtau(P), [kind |-> "ptau", power |-> P, genuine |-> FALSE] }

\* what getBeacon(round) may resolve to
FetchedBeacons(round) ==
    { DrandBeacon(round), DrandBeacon(round + 1),
      [DrandBeacon(round) EXCEPT !.signature = <<48, 48>>] }

HostFileNames ==
    { "powersOfTau.ptau", "circuit_0000.zkey", "time-attestation.cbor",
      "drand-beacon.json" }

\* the enclave before runEnclaveInSeparateProcess
EnclaveOff ==
    [ state |-> "off", step |-> "boot", expects |-> -1, beaconOk |-> FALSE,
      shipped |-> 0 ]

HostInit ==
    /\ EnclaveStart
    /\ rngCurrent = [readable |-> TRUE, text |-> <<"nsm-hwrng", "\n">>]
    /\ now = 0
    /\ AttIdle
    /\ FrameIdle
    /\ PtauIdle
    /\ PeersIdle
    /\ LoopIdle
    /\ DocIdle
    /\ hostPc = "PREPARE"
    /\ hostExitCode = -1
    /\ exitedBy = "none"
    /\ hostLog = <<>>
    /\ hostClock = 0
    /\ circuit \in HostCircuits
    /\ expectedPtauFileInfo = Unset
    /\ hostFs = [n \in HostFileNames |-> Absent]
    /\ enclave = EnclaveOff
    /\ artifacts = <<>>
    /\ drandRoundNumber_host = -1
    /\ hostBeacon = Unset
    /\ fetches = <<>>
    /\ hostSent = <<>>

\* the step ends and run() goes on with the next one
HostCompletes(step, next) ==
    /\ hostPc' = next
    /\ hostLog' = Append(hostLog, step)
    /\ UNCHANGED << hostExitCode, exitedBy >>

\* run().catch((e) => { console.error(e); process.exit(1) })
HostThrows ==
    /\ hostPc' = "exited"
    /\ hostExitCode' = 1
    /\ exitedBy' = "catch"
    /\ UNCHANGED hostLog

\* the checks of the environment, of the directories and of enclave.eif
HostPrepare ==
    /\ hostPc = "PREPARE"
    /\ HostCompletes("PREPARE", "COMPILE") \/ HostThrows
    /\ UNCHANGED << hostClock, circuit, expectedPtauFileInfo, hostFs, enclave,
                    artifacts, drandRoundNumber_host, hostBeacon, fetches, hostSent >>
    /\ UNCHANGED << enclaveVars, attVars, frameVars, ptauVars, peerVars, loopVars, docVars >>

\* await compileCircomCircuit(circomFile, CEREMONY_PATH)
HostCompile ==
    /\ hostPc = "COMPILE"
    /\ HostCompletes("COMPILE", "PTAU_INFO") \/ HostThrows
    /\ UNCHANGED << hostClock, circuit, expectedPtauFileInfo, hostFs, enclave,
                    artifacts, drandRoundNumber_host, hostBeacon, fetches, hostSent >>
    /\ UNCHANGED << enclaveVars, attVars, frameVars, ptauVars, peerVars, loopVars, docVars >>

\* await getExpectedPtauFileInfo("./ceremony/circuit.r1cs")
HostPtauInfo ==
    /\ hostPc = "PTAU_INFO"
    /\ IF ptauLoopDiverges(circuit.nConstraints)
       THEN /\ hostPc' = "PTAU_INFO_LOOP"
            /\ UNCHANGED << hostExitCode, exitedBy, hostLog, expectedPtauFileInfo >>
       ELSE /\ expectedPtauFileInfo' = getExpectedPtauFileInfo(circuit.nConstraints)
            /\ HostCompletes("PTAU_INFO", "DOWNLOAD")
    /\ UNCHANGED << hostClock, circuit, hostFs, enclave, artifacts,
                    drandRoundNumber_host, hostBeacon, fetches, hostSent >>
    /\ UNCHANGED << enclaveVars, attVars, frameVars, ptauVars, peerVars, loopVars, docVars >>

\* await downloadFile(expectedPtauFileInfo.url, "./ceremony/powersOfTau.ptau")
HostDownload ==
    /\ hostPc = "DOWNLOAD"
    /\ \/ /\ \E d \in Downloads(expectedPtauFileInfo.power) :
                hostFs' = [hostFs EXCEPT !["powersOfTau.ptau"] = d]
          /\ HostCompletes("DOWNLOAD", "PTAU_HASH")
       \/ /\ UNCHANGED hostFs
          /\ HostThrows
    /\ UNCHANGED << hostClock, circuit, expectedPtauFileInfo, enclave, artifacts,
                    drandRoundNumber_host, hostBeacon, fetches, hostSent >>
    /\ UNCHANGED << enclaveVars, attVars, frameVars, ptauVars, peerVars, loopVars, docVars >>

\* if (actualPtauFileBlake2bHash !== expectedPtauFileInfo.blake2b) throw
HostPtauHash ==
    /\ hostPc = "PTAU_HASH"
    /\ IF blake2b512HashOfFile(hostFs, "powersOfTau.ptau") # expectedPtauFileInfo.blake2b
       THEN HostThrows
       ELSE HostCompletes("PTAU_HASH", "START_ENCLAVE")
    /\ UNCHANGED << hostClock, circuit, expectedPtauFileInfo, hostFs, enclave,
                    artifacts, drandRoundNumber_host, hostBeacon, fetches, hostSent >>
    /\ UNCHANGED << enclaveVars, attVars, frameVars, ptauVars, peerVars, loopVars, docVars >>

\* runEnclaveInSeparateProcess('./ceremony/enclave.eif') and the wait of 30
\* seconds; die() inside it is process.exit(1)
HostStartEnclave ==
    /\ hostPc = "START_ENCLAVE"
    /\ \/ /\ enclave' = [enclave EXCEPT !.state = "running"]
          /\ hostClock' = hostClock + 30000
          /\ HostCompletes("START_ENCLAVE", "NEW_ZKEY")
       \/ /\ hostPc' = "exited"
          /\ hostExitCode' = 1
          /\ exitedBy' = "die"
          /\ UNCHANGED << hostLog, enclave, hostClock >>
    /\ UNCHANGED << circuit, expectedPtauFileInfo, hostFs, artifacts, drandRoundNumber_host,
                    hostBeacon, fetches, hostSent >>
    /\ UNCHANGED << enclaveVars, attVars, frameVars, ptauVars, peerVars, loopVars, docVars >>

\* await zKey.newZKey(circuit.r1cs, powersOfTau.ptau, circuit_0000.zkey)
HostNewZKey ==
    /\ hostPc = "NEW_ZKEY"
    /\ \/ /\ \E sound \in BOOLEAN :
                hostFs' = [hostFs EXCEPT !["circuit_0000.zkey"] =
                              [ kind |-> "zkey", sound |-> sound,
                                power |-> hostFs["powersOfTau.ptau"].power ]]
          /\ HostCompletes("NEW_ZKEY", "VERIFY_ZKEY")
       \/ /\ UNCHANGED hostFs
          /\ HostThrows
    /\ UNCHANGED << hostClock, circuit, expectedPtauFileInfo, enclave, artifacts,
                    drandRoundNumber_host, hostBeacon, fetches, hostSent >>
    /\ UNCHANGED << enclaveVars, attVars, frameVars, ptauVars, peerVars, loopVars, docVars >>

\* if (!verified_0000) throw new Error(...)
HostVerifyZKey ==
    /\ hostPc = "VERIFY_ZKEY"
    /\ IF hostFs["circuit_0000.zkey"].sound
       THEN HostCompletes("VERIFY_ZKEY", "SEND_INPUTS")
       ELSE HostThrows
    /\ UNCHANGED << hostClock, circuit, expectedPtauFileInfo, hostFs, enclave,
                    artifacts, drandRoundNumber_host, hostBeacon, fetches, hostSent >>
    /\ UNCHANGED << enclaveVars, attVars, frameVars, ptauVars, peerVars, loopVars, docVars >>

\* await sendFiles({ port: ENCLAVE_LISTEN_PORT, items: [circomFile,
\* powersOfTau.ptau, circuit_0000.zkey] })
HostSendInputs ==
    /\ hostPc = "SEND_INPUTS"
    /\ \/ /\ enclave.state = "running"
          /\ enclave.step = "boot"
          /\ hostSent' = Append(hostSent,
                 [ port |-> EnclavePort,
                   files |-> << "circuit.circom", "powersOfTau.ptau", "circuit_0000.zkey" >> ])
          /\ enclave' = [enclave EXCEPT !.step = "inputs"]
          /\ HostCompletes("SEND_INPUTS", "AWAIT_TIME_ATTESTATION")
       \/ /\ UNCHANGED << hostSent, enclave >>
          /\ HostThrows
    /\ UNCHANGED << hostClock, circuit, expectedPtauFileInfo, hostFs, artifacts,
                    drandRoundNumber_host, hostBeacon, fetches >>
    /\ UNCHANGED << enclaveVars, attVars, frameVars, ptauVars, peerVars, loopVars, docVars >>

\* the enclave sends time-attestation.cbor, which it verified, and computes
\* the round it expects; the 'data' listener of the host saves the file
ReceiveTimeAttestation ==
    /\ hostPc = "AWAIT_TIME_ATTESTATION"
    /\ enclave.state = "running"
    /\ enclave.step = "inputs"
    /\ \E t \in AttestationInstants :
          LET att == SignedDoc(sha256Bytes("circuit_0001.zkey"), NoBytes, t)
          IN  /\ hostFs' = [hostFs EXCEPT !["time-attestation.cbor"] = att]
              /\ enclave' = [enclave EXCEPT
                     !.step = "attested",
                     !.expects = drandRoundNumber(parseAttestationDocument(att).timestamp)]
    /\ artifacts' = Append(artifacts, "time-attestation.cbor")
    /\ UNCHANGED << hostPc, hostExitCode, exitedBy, hostLog >>
    /\ UNCHANGED << hostClock, circuit, expectedPtauFileInfo, drandRoundNumber_host, hostBeacon,
                    fetches, hostSent >>
    /\ UNCHANGED << enclaveVars, attVars, frameVars, ptauVars, peerVars, loopVars, docVars >>

\* await awaitFiles({ items: [time-attestation.cbor], port: HOST_LISTEN_PORT })
HostAwaitTimeAttestation ==
    /\ hostPc = "AWAIT_TIME_ATTESTATION"
    /\ Len(artifacts) = 1
    /\ HostCompletes("AWAIT_TIME_ATTESTATION", "COMPUTE_ROUND")
    /\ UNCHANGED << hostClock, circuit, expectedPtauFileInfo, hostFs, enclave,
                    artifacts, drandRoundNumber_host, hostBeacon, fetches, hostSent >>
    /\ UNCHANGED << enclaveVars, attVars, frameVars, ptauVars, peerVars, loopVars, docVars >>

\* parseAttestationDocument, getRoundAt(timestamp + (90 * 1000)), Date.now()
HostComputeRound ==
    /\ hostPc = "COMPUTE_ROUND"
    /\ IF parseThrows(hostFs["time-attestation.cbor"])
       THEN /\ HostThrows
            /\ UNCHANGED << drandRoundNumber_host, hostClock >>
       ELSE /\ drandRoundNumber_host' =
                   hostDrandRoundNumber(
                       parseAttestationDocument(hostFs["time-attestation.cbor"]).timestamp)
            /\ \E h \in HostInstants : hostClock' = h
            /\ HostCompletes("COMPUTE_ROUND", "WAIT_ROUND")
    /\ UNCHANGED << circuit, expectedPtauFileInfo, hostFs, enclave, artifacts,
                    hostBeacon, fetches, hostSent >>
    /\ UNCHANGED << enclaveVars, attVars, frameVars, ptauVars, peerVars, loopVars, docVars >>

\* while (Date.now() < drandAvailableTime) await setTimeout(1000)
HostWaitRound ==
    /\ hostPc = "WAIT_ROUND"
    /\ IF hostClock < drandAvailableTime(drandRoundNumber_host)
       THEN /\ \E d \in SleepSteps : hostClock' = hostClock + d
            /\ UNCHANGED << hostPc, hostExitCode, exitedBy, hostLog >>
       ELSE /\ UNCHANGED hostClock
            /\ HostCompletes("WAIT_ROUND", "FETCH")
    /\ UNCHANGED << circuit, expectedPtauFileInfo, hostFs, enclave, artifacts,
                    drandRoundNumber_host, hostBeacon, fetches, hostSent >>
    /\ UNCHANGED << enclaveVars, attVars, frameVars, ptauVars, peerVars, loopVars, docVars >>

\* const beacon = await getBeacon(drandRoundNumber)
HostFetch ==
    /\ hostPc = "FETCH"
    /\ fetches' = Append(fetches, [round |-> drandRoundNumber_host, at |-> hostClock])
    /\ \/ /\ hostBeacon' \in FetchedBeacons(drandRoundNumber_host)
          /\ HostCompletes("FETCH", "VERIFY_BEACON")
       \/ /\ UNCHANGED hostBeacon
          /\ HostThrows
    /\ UNCHANGED << hostClock, circuit, expectedPtauFileInfo, hostFs, enclave,
                    artifacts, drandRoundNumber_host, hostSent >>
    /\ UNCHANGED << enclaveVars, attVars, frameVars, ptauVars, peerVars, loopVars, docVars >>

\* if (!verified_drand) throw new Error(...)
HostVerifyBeacon ==
    /\ hostPc = "VERIFY_BEACON"
    /\ IF verifyBeacon(hostBeacon, drandRoundNumber_host) = "true"
       THEN HostCompletes("VERIFY_BEACON", "SEND_BEACON")
       ELSE HostThrows
    /\ UNCHANGED << hostClock, circuit, expectedPtauFileInfo, hostFs, enclave,
                    artifacts, drandRoundNumber_host, hostBeacon, fetches, hostSent >>
    /\ UNCHANGED << enclaveVars, attVars, frameVars, ptauVars, peerVars, loopVars, docVars >>

\* fs.writeFileSync(drand-beacon.json, JSON.stringify(beacon)) and
\* await sendFiles({ items: [drand-beacon.json], port: ENCLAVE_LISTEN_PORT + 1 });
\* the enclave checks the beacon against the round it expects
HostSendBeacon ==
    /\ hostPc = "SEND_BEACON"
    /\ hostFs' = [hostFs EXCEPT !["drand-beacon.json"] = JsonFile(hostBeacon)]
    /\ \/ /\ enclave.state = "running"
          /\ enclave.step = "attested"
          /\ hostSent' = Append(hostSent,
                 [ port |-> EnclavePort1, files |-> << "drand-beacon.json" >> ])
          /\ enclave' = [enclave EXCEPT
                 !.step = "beacon",
                 !.beaconOk = (verifyBeacon(hostBeacon, enclave.expects) = "true")]
          /\ HostCompletes("SEND_BEACON", "AWAIT_ARTIFACTS")
       \/ /\ UNCHANGED << hostSent, enclave >>
          /\ HostThrows
    /\ UNCHANGED << hostClock, circuit, expectedPtauFileInfo, artifacts, drandRoundNumber_host,
                    hostBeacon, fetches >>
    /\ UNCHANGED << enclaveVars, attVars, frameVars, ptauVars, peerVars, loopVars, docVars >>

\* the enclave writes the next of its final files; the 'data' listener of
\* the host saves it under the name the enclave gave
ReceiveArtifact ==
    /\ hostPc = "AWAIT_ARTIFACTS"
    /\ enclave.state = "running"
    /\ enclave.step = "beacon"
    /\ enclave.beaconOk
    /\ enclave.shipped < Len(finalArtifacts)
    /\ artifacts' = Append(artifacts, basenameOf(finalArtifacts[enclave.shipped + 1]))
    /\ enclave' = [enclave EXCEPT !.shipped = @ + 1]
    /\ UNCHANGED << hostPc, hostExitCode, exitedBy, hostLog >>
    /\ UNCHANGED << hostClock, circuit, expectedPtauFileInfo, hostFs, drandRoundNumber_host,
                    hostBeacon, fetches, hostSent >>
    /\ UNCHANGED << enclaveVars, attVars, frameVars, ptauVars, peerVars, loopVars, docVars >>

\* await awaitFiles({ port: HOST_LISTEN_PORT + 1, items: [9 items] }): the
\* promise resolves when as many files as items were received
HostAwaitArtifacts ==
    /\ hostPc = "AWAIT_ARTIFACTS"
    /\ Len(artifacts) - 1 = Len(hostFinalItems)
    /\ HostCompletes("AWAIT_ARTIFACTS", "FINISH")
    /\ UNCHANGED << hostClock, circuit, expectedPtauFileInfo, hostFs, enclave,
                    artifacts, drandRoundNumber_host, hostBeacon, fetches, hostSent >>
    /\ UNCHANGED << enclaveVars, attVars, frameVars, ptauVars, peerVars, loopVars, docVars >>

\* the two waits and process.exit(0)
HostFinish ==
    /\ hostPc = "FINISH"
    /\ hostPc' = "exited"
    /\ hostExitCode' = 0
    /\ exitedBy' = "run"
    /\ hostLog' = Append(hostLog, "FINISH")
    /\ UNCHANGED << hostClock, circuit, expectedPtauFileInfo, hostFs, enclave,
                    artifacts, drandRoundNumber_host, hostBeacon, fetches, hostSent >>
    /\ UNCHANGED << enclaveVars, attVars, frameVars, ptauVars, peerVars, loopVars, docVars >>

\* the enclave ends: a failed check, a crash, or process.exit(0) after its
\* last file
EnclaveEnds ==
    /\ hostPc # "exited"
    /\ enclave.state = "running"
    /\ enclave' = [enclave EXCEPT !.state = "ended"]
    /\ UNCHANGED << hostPc, hostExitCode, exitedBy, hostLog >>
    /\ UNCHANGED << hostClock, circuit, expectedPtauFileInfo, hostFs, artifacts,
                    drandRoundNumber_host, hostBeacon, fetches, hostSent >>
    /\ UNCHANGED << enclaveVars, attVars, frameVars, ptauVars, peerVars, loopVars, docVars >>

\* child.on('close', code => { file.end(); ...; process.exit(code ?? 0) })
ConsoleClose ==
    /\ hostPc # "exited"
    /\ enclave.state # "off"
    /\ \E c \in ConsoleCloseCodes :
          /\ hostPc' = "exited"
          /\ hostExitCode' = codeOrZero(c)
          /\ exitedBy' = "console"
    /\ UNCHANGED hostLog
    /\ UNCHANGED << hostClock, circuit, expectedPtauFileInfo, hostFs, enclave,
                    artifacts, drandRoundNumber_host, hostBeacon, fetches, hostSent >>
    /\ UNCHANGED << enclaveVars, attVars, frameVars, ptauVars, peerVars, loopVars, docVars >>

HostNext ==
    \/ HostPrepare
    \/ HostCompile
    \/ HostPtauInfo
    \/ HostDownload
    \/ HostPtauHash
    \/ HostStartEnclave
    \/ HostNewZKey
    \/ HostVerifyZKey
    \/ HostSendInputs
    \/ ReceiveTimeAttestation
    \/ HostAwaitTimeAttestation
    \/ HostComputeRound
    \/ HostWaitRound
    \/ HostFetch
    \/ HostVerifyBeacon
    \/ HostSendBeacon
    \/ ReceiveArtifact
    \/ HostAwaitArtifacts
    \/ HostFinish
    \/ EnclaveEnds
    \/ ConsoleClose

HostSpec == HostInit /\ [][HostNext]_vars

(***************************************************************************)
(* The two processes of a ceremony and their four file transfers           *)
(***************************************************************************)
Peers == { "host", "enclave" }

\* the four calls of sendFiles, each with the call of awaitFiles it meets
Transfers ==
    << [ sender |-> "host", receiver |-> "enclave", port |-> EnclavePort ],
       [ sender |-> "enclave", receiver |-> "host", port |-> HostPort ],
       [ sender |-> "host", receiver |-> "enclave", port |-> EnclavePort1 ],
       [ sender |-> "enclave", receiver |-> "host", port |-> HostPort1 ] >>

Step(op, t, name) == [ op |-> op, t |-> t, name |-> name ]

\* run() of the host, from the line after runEnclaveInSeparateProcess on
hostRun ==
    << Step("timer", 0, "WAIT_30S"),
       Step("work", 0, "NEW_ZKEY"),
       Step("send", 1, "SEND_INPUTS"),
       Step("receive", 2, "AWAIT_TIME_ATTESTATION"),
       Step("work", 0, "FETCH_BEACON"),
       Step("send", 3, "SEND_BEACON"),
       Step("receive", 4, "AWAIT_ARTIFACTS"),
       Step("exit", 0, "FINISH") >>

\* the start of the enclave and run() of the enclave
enclaveRun ==
    << Step("work", 0, "RNG_CHECK"),
       Step("receive", 1, "AWAIT_INPUTS"),
       Step("work", 0, "TIME_ATTESTATION"),
       Step("send", 2, "SEND_TIME_ATTESTATION"),
       Step("receive", 3, "AWAIT_BEACON"),
       Step("work", 0, "FINAL_ATTESTATION"),
       Step("send", 4, "SHIP_ARTIFACTS"),
       Step("exit", 0, "EXIT") >>

runOf(p) == IF p = "host" THEN hostRun ELSE enclaveRun

\* the step process p is at
cur(p) == runOf(p)[peer[p].at]

running(p) == peerExit[p] = -1

\* a connection nobody has opened
NoLink == [ state |-> "none", written |-> FALSE, ended |-> {} ]

\* sock.end() without the effect of the call
halfClose_noEnd(l, p) == l

\* sock.end(): process p closes its side of the connection
halfClose(l, p) == [ l EXCEPT !.ended = @ \cup { p } ]

\* both sides have ended: the socket and the server emit 'close'
closed(l) == l.ended = Peers

\* the ports process p listens on
portsOf(p) == { Transfers[t].port : t \in { u \in 1..4 : Transfers[u].receiver = p } }

PeersInit ==
    /\ EnclaveStart
    /\ rngCurrent = [readable |-> TRUE, text |-> <<"nsm-hwrng", "\n">>]
    /\ now = 0
    /\ AttIdle
    /\ FrameIdle
    /\ PtauIdle
    /\ HostIdle
    /\ LoopIdle
    /\ DocIdle
    /\ peer = [ p \in Peers |-> [ at |-> 1, sub |-> "run" ] ]
    /\ peerExit = [ p \in Peers |-> -1 ]
    /\ listening = {}
    /\ link = [ t \in 1..4 |-> NoLink ]
    /\ connects = <<>>
    /\ oracleFailed = FALSE

\* the awaited promise resolves and run() goes on with its next step
advance(p) == peer' = [ peer EXCEPT ![p] = [ at |-> @.at + 1, sub |-> "run" ] ]

\* run().catch((e) => { console.error(e); process.exit(1) }); the servers of
\* the process go with it
exitWith(p, code) ==
    /\ peerExit' = [ peerExit EXCEPT ![p] = code ]
    /\ listening' = listening \ portsOf(p)

\* a step of run() between two transfers: it ends, or one of the tools,
\* libraries and services it calls fails and run() throws; the timer of
\* 30 seconds only ends
PeerWork ==
    \E p \in Peers :
       /\ running(p)
       /\ cur(p).op \in { "work", "timer" }
       /\ \/ /\ advance(p)
             /\ UNCHANGED << peerExit, listening, oracleFailed >>
          \/ /\ cur(p).op = "work"
             /\ exitWith(p, 1)
             /\ oracleFailed' = TRUE
             /\ UNCHANGED peer
       /\ UNCHANGED << link, connects >>
       /\ UNCHANGED << enclaveVars, attVars, frameVars, ptauVars, hostVars, loopVars, docVars >>

\* awaitFiles: server.listen(port)
PeerListen ==
    \E p \in Peers :
       /\ running(p)
       /\ cur(p).op = "receive"
       /\ peer[p].sub = "run"
       /\ listening' = listening \cup { Transfers[cur(p).t].port }
       /\ peer' = [ peer EXCEPT ![p].sub = "serving" ]
       /\ UNCHANGED << peerExit, link, connects, oracleFailed >>
       /\ UNCHANGED << enclaveVars, attVars, frameVars, ptauVars, hostVars, loopVars, docVars >>

\* sendFiles: sock.connect(cid, port). With a server on the port the socket
\* emits 'connect'; without one it emits 'error' (reject, then run() throws)
\* or stays as it is
PeerConnect ==
    \E p \in Peers :
       LET t == cur(p).t
           up == Transfers[t].port \in listening
       IN  /\ running(p)
           /\ cur(p).op = "send"
           /\ peer[p].sub = "run"
           /\ connects' = Append(connects, [ t |-> t, up |-> up ])
           /\ IF up
              THEN /\ link' = [ link EXCEPT ![t].state = "open" ]
                   /\ peer' = [ peer EXCEPT ![p].sub = "writing" ]
                   /\ UNCHANGED << peerExit, listening >>
              ELSE \/ /\ exitWith(p, 1)
                      /\ UNCHANGED << peer, link >>
                   \/ /\ peer' = [ peer EXCEPT ![p].sub = "hung" ]
                      /\ UNCHANGED << peerExit, listening, link >>
           /\ UNCHANGED oracleFailed
           /\ UNCHANGED << enclaveVars, attVars, frameVars, ptauVars, hostVars, loopVars, docVars >>

\* the 'connect' listener of sendFiles: lowSend for every item, then
\* sock.once('close', resolve) and sock.end()
PeerWrite ==
    \E p \in Peers :
       LET t == cur(p).t
       IN  /\ running(p)
           /\ cur(p).op = "send"
           /\ peer[p].sub = "writing"
           /\ link' = [ link EXCEPT ![t] = halfClose([ @ EXCEPT !.written = TRUE ], p) ]
           /\ peer' = [ peer EXCEPT ![p].sub = "closing" ]
           /\ UNCHANGED << peerExit, listening, connects, oracleFailed >>
           /\ UNCHANGED << enclaveVars, attVars, frameVars, ptauVars, hostVars, loopVars, docVars >>

\* the 'data' listener of awaitFiles has the last file, and the callback of
\* its stream runs: sock.end(), server.once('close', resolve), server.close()
PeerServe ==
    \E p \in Peers :
       LET t == cur(p).t
       IN  /\ running(p)
           /\ cur(p).op = "receive"
           /\ peer[p].sub = "serving"
           /\ link[t].written
           /\ link' = [ link EXCEPT ![t] = halfClose(@, p) ]
           /\ listening' = listening \ { Transfers[t].port }
           /\ peer' = [ peer EXCEPT ![p].sub = "closing" ]
           /\ UNCHANGED << peerExit, connects, oracleFailed >>
           /\ UNCHANGED << enclaveVars, attVars, frameVars, ptauVars, hostVars, loopVars, docVars >>

\* 'close' of the socket of sendFiles: resolve
SocketClosed ==
    \E p \in Peers :
       /\ running(p)
       /\ cur(p).op = "send"
       /\ peer[p].sub = "closing"
       /\ closed(link[cur(p).t])
       /\ advance(p)
       /\ UNCHANGED << peerExit, listening, link, connects, oracleFailed >>
       /\ UNCHANGED << enclaveVars, attVars, frameVars, ptauVars, hostVars, loopVars, docVars >>

\* 'close' of the server of awaitFiles: resolve
ServerClosed ==
    \E p \in Peers :
       /\ running(p)
       /\ cur(p).op = "receive"
       /\ peer[p].sub = "closing"
       /\ closed(link[cur(p).t])
       /\ advance(p)
       /\ UNCHANGED << peerExit, listening, link, connects, oracleFailed >>
       /\ UNCHANGED << enclaveVars, attVars, frameVars, ptauVars, hostVars, loopVars, docVars >>

\* the two timers at the end of run() and process.exit(0)
PeerExits ==
    \E p \in Peers :
       /\ running(p)
       /\ cur(p).op = "exit"
       /\ exitWith(p, 0)
       /\ UNCHANGED << peer, link, connects, oracleFailed >>
       /\ UNCHANGED << enclaveVars, attVars, frameVars, ptauVars, hostVars, loopVars, docVars >>

\* the enclave is gone and its console ends: the 'close' listener of the
\* host runs process.exit(code ?? 0); a console that ends with an error is
\* a tool that failed
ConsoleClosed ==
    /\ ~running("enclave")
    /\ running("host")
    /\ \E c \in ConsoleCloseCodes :
          /\ exitWith("host", codeOrZero(c))
          /\ oracleFailed' = (oracleFailed \/ codeOrZero(c) # 0)
    /\ UNCHANGED << peer, link, connects >>
    /\ UNCHANGED << enclaveVars, attVars, frameVars, ptauVars, hostVars, loopVars, docVars >>

PeersNext ==
    \/ PeerWork
    \/ PeerListen
    \/ PeerConnect
    \/ PeerWrite
    \/ PeerServe
    \/ SocketClosed
    \/ ServerClosed
    \/ PeerExits
    \/ ConsoleClosed

PeersSpec == PeersInit /\ [][PeersNext]_vars

\* the event loops of the two processes run every listener that is due
PeersFairSpec == PeersSpec /\ WF_vars(PeersNext)

(***************************************************************************)
(* The loop of getExpectedPtauFileInfo, one iteration at a time            *)
(***************************************************************************)
\* the largest P that is kept as it is; beyond it P is kept modulo 32,
\* which leaves 1 << P as it was
MaxP == 64

\* the constraint counts r1cs.info may report, up to 2^31 - 1
LoopCounts ==
    ConstraintCounts \cup { 2 ^ 30, 2 ^ 30 + 1, 2 ^ 30 + (2 ^ 30 - 1) }

LoopInit ==
    /\ EnclaveStart
    /\ rngCurrent = [readable |-> TRUE, text |-> <<"nsm-hwrng", "\n">>]
    /\ now = 0
    /\ AttIdle
    /\ FrameIdle
    /\ PtauIdle
    /\ HostIdle
    /\ PeersIdle
    /\ DocIdle
    /\ loopCount \in LoopCounts
    /\ loopP = 1
    /\ loopPc = "test"

\* while ((1 << P) < totalConstraints) P++ : the test holds
LoopIterate ==
    /\ loopPc = "test"
    /\ shiftLeft1(loopP) < loopCount
    /\ loopP' = IF loopP < MaxP THEN loopP + 1 ELSE (loopP + 1) - 32
    /\ UNCHANGED << loopCount, loopPc >>
    /\ UNCHANGED << enclaveVars, attVars, frameVars, ptauVars, hostVars, peerVars, docVars >>

\* the test fails; if (P < 8) P = 8; if (P > 28) P = 28
LoopLeave ==
    /\ loopPc = "test"
    /\ ~(shiftLeft1(loopP) < loopCount)
    /\ loopP' = IF loopP < 8 THEN 8 ELSE IF loopP > 28 THEN 28 ELSE loopP
    /\ loopPc' = "done"
    /\ UNCHANGED loopCount
    /\ UNCHANGED << enclaveVars, attVars, frameVars, ptauVars, hostVars, peerVars, docVars >>

LoopNext ==
    \/ LoopIterate
    \/ LoopLeave

LoopSpec == LoopInit /\ [][LoopNext]_vars

\* the loop has no await: an iteration that can run does run
LoopFairSpec == LoopSpec /\ WF_vars(LoopNext)

(***************************************************************************)
(* One call of getAttestationDoc and its helper /bin/get-attestation       *)
(***************************************************************************)
\* a Buffer of that many bytes
BufferOf(len) == [ len |-> len ]

\* the document the helper prints, and a file an earlier call left
DocBytes == << 1, 2, 3 >>
OldFile == [ bytes |-> << 9 >> ]

\* the helper has not ended
Running == [ running |-> TRUE ]

\* how the helper may end: return 0, return 1, or killed by a signal
HelperExits == { [code |-> 0], [code |-> 1], [signal |-> "SIGKILL"] }

\* if (nonce && nonce.length > 64) throw
nonceTooLarge(args) == args.nonce # NoBytes /\ args.nonce.len > 64

\* if (userData && userData.length > 512) throw
userDataTooLarge(args) == args.userData # NoBytes /\ args.userData.len > 512

helperSucceeded_any(code) == TRUE

\* if (code === 0)
helperSucceeded(code) == code = [code |-> 0]

\* Buffer.concat(chunks)
RECURSIVE concat(_)
concat(chunks) == IF chunks = <<>> THEN <<>> ELSE chunks[1] \o concat(Tail(chunks))

DocInit ==
    /\ EnclaveStart
    /\ rngCurrent = [readable |-> TRUE, text |-> <<"nsm-hwrng", "\n">>]
    /\ now = 0
    /\ AttIdle
    /\ FrameIdle
    /\ PtauIdle
    /\ HostIdle
    /\ PeersIdle
    /\ LoopIdle
    /\ docArgs \in
          [ nonce : { NoBytes } \cup { BufferOf(n) : n \in { 0, 32, 64, 65 } },
            userData : { NoBytes } \cup { BufferOf(n) : n \in { 32, 512, 513 } },
            before : { NoBytes, OldFile } ]
    /\ docPc = "check"
    /\ docChild = Unset
    /\ docChunks = <<>>
    /\ docFile = docArgs.before
    /\ docResult = "pending"

\* the two checks of the sizes, then spawn('/bin/get-attestation', args)
DocSpawn ==
    /\ docPc = "check"
    /\ IF nonceTooLarge(docArgs) \/ userDataTooLarge(docArgs)
       THEN /\ docPc' = "done"
            /\ docResult' = "rejected"
            /\ UNCHANGED docChild
       ELSE /\ docPc' = "spawned"
            /\ docChild' = [ out |-> <<>>, read |-> 0, exit |-> Running ]
            /\ UNCHANGED docResult
    /\ UNCHANGED << docArgs, docChunks, docFile >>
    /\ UNCHANGED << enclaveVars, attVars, frameVars, ptauVars, hostVars, peerVars, loopVars >>

\* fwrite(doc, 1, doc_size, stdout): the next bytes of the document reach
\* the pipe
HelperWrites ==
    /\ docPc = "spawned"
    /\ docChild.exit = Running
    /\ Len(docChild.out) < Len(DocBytes)
    /\ \E k \in (Len(docChild.out) + 1)..Len(DocBytes) :
          docChild' = [ docChild EXCEPT !.out = SubSeq(DocBytes, 1, k) ]
    /\ UNCHANGED << docArgs, docPc, docChunks, docFile, docResult >>
    /\ UNCHANGED << enclaveVars, attVars, frameVars, ptauVars, hostVars, peerVars, loopVars >>

\* the helper ends: 'return 1' comes before any output, 'return 0' after the
\* whole document, a signal at any moment
HelperEnds ==
    /\ docPc = "spawned"
    /\ docChild.exit = Running
    /\ \E e \in HelperExits :
          /\ e = [code |-> 0] => docChild.out = DocBytes
          /\ e = [code |-> 1] => docChild.out = <<>>
          /\ docChild' = [ docChild EXCEPT !.exit = e ]
    /\ UNCHANGED << docArgs, docPc, docChunks, docFile, docResult >>
    /\ UNCHANGED << enclaveVars, attVars, frameVars, ptauVars, hostVars, peerVars, loopVars >>

\* child.stdout.on('data', (chunk) => chunks.push(chunk))
StdoutData ==
    /\ docPc = "spawned"
    /\ docChild.read < Len(docChild.out)
    /\ \E k \in (docChild.read + 1)..Len(docChild.out) :
          /\ docChunks' = Append(docChunks, SubSeq(docChild.out, docChild.read + 1, k))
          /\ docChild' = [ docChild EXCEPT !.read = k ]
    /\ UNCHANGED << docArgs, docPc, docFile, docResult >>
    /\ UNCHANGED << enclaveVars, attVars, frameVars, ptauVars, hostVars, peerVars, loopVars >>

\* child.on('close', (code) => ...): the helper has ended and its stdout has
\* been read to the end
ChildClose ==
    /\ docPc = "spawned"
    /\ docChild.exit # Running
    /\ docChild.read = Len(docChild.out)
    /\ IF helperSucceeded(docChild.exit)
       THEN /\ docPc' = "write"
            /\ UNCHANGED docResult
       ELSE /\ docPc' = "done"
            /\ docResult' = "rejected"
    /\ UNCHANGED << docArgs, docChild, docChunks, docFile >>
    /\ UNCHANGED << enclaveVars, attVars, frameVars, ptauVars, hostVars, peerVars, loopVars >>

\* await writeFile(filename, attestation); return attestation
DocWrite ==
    /\ docPc = "write"
    /\ docFile' = [ bytes |-> concat(docChunks) ]
    /\ docPc' = "done"
    /\ docResult' = "resolved"
    /\ UNCHANGED << docArgs, docChild, docChunks >>
    /\ UNCHANGED << enclaveVars, attVars, frameVars, ptauVars, hostVars, peerVars, loopVars >>

DocNext ==
    \/ DocSpawn
    \/ HelperWrites
    \/ HelperEnds
    \/ StdoutData
    \/ ChildClose
    \/ DocWrite

DocSpec == DocInit /\ [][DocNext]_vars

(***************************************************************************)
(* Facts about a state, stated on the files and the environment and not on *)
(* the functions of the program                                            *)
(***************************************************************************)
Requested(filename) == \E i \in 1..Len(attReqs) : attReqs[i].file = filename

SentOn(port) == \E i \in 1..Len(sent) : sent[i].port = port

Ran(p) == \E i \in 1..Len(log) : log[i] = p

ExitsNonZero == pc = "exited" /\ exitCode = 1

\* the platform reports 'nsm-hwrng' as the current hardware RNG
RngIsNsm ==
    /\ rngCurrent.readable
    /\ rngCurrent.text \in { <<"nsm-hwrng">>, <<"nsm-hwrng", "\n">> }

\* the PTAU file on disk is the catalog's file for the power derived from the r1cs
PtauGood(f) ==
    /\ f["circuit.r1cs"].kind = "r1cs"
    /\ \E P \in 8..28 :
          /\ f["circuit.r1cs"].nConstraints <= 2 ^ P
          /\ P > 8 => f["circuit.r1cs"].nConstraints > 2 ^ (P - 1)
          /\ f["powersOfTau.ptau"] = [kind |-> "ptau", power |-> P, genuine |-> TRUE]

\* the key on disk is sound for the circuit and the parameters on disk
ZkeyGood(f, zkeyName) ==
    /\ f[zkeyName].kind = "zkey"
    /\ f["circuit.r1cs"].kind = "r1cs"
    /\ f["powersOfTau.ptau"].kind = "ptau"
    /\ f[zkeyName].sound
    /\ f[zkeyName].circuit = f["circuit.r1cs"].circuit
    /\ f[zkeyName].power = f["powersOfTau.ptau"].power

\* the document is one the Nitro Secure Module signed: its key, certified by
\* the Nitro PKI under the pinned root, signed this header and this payload
AttestationGenuine(att) ==
    /\ att.kind = "attestation"
    /\ att.protected.alg = 0 - 35
    /\ att.signature.signer = "nsmKey"
    /\ att.signature.message = << "Signature1", att.protected, <<>>, att.payload >>
    /\ att.payload.certificate.publicKey = "nsmKey"
    /\ att.payload.certificate.signedBy = "intermKey"
    /\ att.payload.cabundle[1].publicKey = "rootKey"

\* the time attestation on disk is genuine and bound to circuit_0001.zkey
TimeAttestationGood(f) ==
    /\ AttestationGenuine(f["time-attestation.cbor"])
    /\ f["time-attestation.cbor"].payload.nonce = [sha256 |-> f["circuit_0001.zkey"]]

\* the beacon on disk is the one the network published for round R
BeaconGood(f, R) ==
    /\ f["drand-beacon.json"].kind = "json"
    /\ LET b == f["drand-beacon.json"].obj
       IN  /\ b.round.t = "number"
           /\ b.round.v = R
           /\ BufferFromHex(b.signature) = DrandSig(R)
           /\ BufferFromHex(b.previous_signature) = DrandSig(R - 1)
           /\ BufferFromHex(b.randomness) = sha256(DrandSig(R))

\* the round the enclave must expect for the time attestation on disk
ExpectedRound(f) == ((f["time-attestation.cbor"].payload.timestamp + 90000) \div 30000) + 1

AllChecksGood ==
    /\ RngIsNsm
    /\ PtauGood(fs)
    /\ ZkeyGood(fs, "circuit_0000.zkey")
    /\ ZkeyGood(fs, "circuit_0001.zkey")
    /\ ZkeyGood(fs, "circuit_final.zkey")
    /\ TimeAttestationGood(fs)
    /\ BeaconGood(fs, ExpectedRound(fs))

\* a step in which one of the checks is made on something that fails it
FailedCheckStep ==
    \/ pc = "RNG_CHECK" /\ ~RngIsNsm
    \/ pc = "PTAU_CHECK" /\ ~PtauGood(fs)
    \/ pc = "VERIFY_INITIAL" /\ ~ZkeyGood(fs, "circuit_0000.zkey")
    \/ pc = "VERIFY_INTERMEDIATE" /\ ~ZkeyGood(fs, "circuit_0001.zkey")
    \/ pc = "TIME_ATTESTATION" /\ pc' # pc /\ ~TimeAttestationGood(fs')
    \/ pc = "VERIFY_BEACON" /\ ~BeaconGood(fs, ExpectedRound(fs))
    \/ pc = "VERIFY_FINAL" /\ ~ZkeyGood(fs, "circuit_final.zkey")

(***************************************************************************)
(* C1                                                                      *)
(***************************************************************************)
C1_AttestationOnlyAfterChecks == Requested("final-attestation.cbor") => AllChecksGood

C1_FailedCheckIsFatal ==
    FailedCheckStep =>
        /\ pc' = "exited"
        /\ exitCode' = 1
        /\ \A i \in 1..Len(attReqs') : attReqs'[i].file # "final-attestation.cbor"

\* C1: the final attestation is requested only after the RNG check, the PTAU
\* digest check, the verification of the three zkeys, the re-verification
\* of the time attestation and verifyBeacon for round R all succeeded in
\* this run; a step in which one of them fails ends the process with exit
\* code 1 and without any request for the final attestation.
C1_FinalAttestationOnlyAfterAllChecks ==
    [](C1_AttestationOnlyAfterChecks /\ (exitCode = 0 => AllChecksGood))
        /\ [][C1_FailedCheckIsFatal]_vars

C1_Witness ==
    /\ pc = "SHIP_ARTIFACTS"
    /\ Requested("final-attestation.cbor")
    /\ AllChecksGood

(***************************************************************************)
(* C2                                                                      *)
(***************************************************************************)
\* the final attestation on disk is genuine and bound to the commitment on disk
FinalAttestationGood(f) ==
    /\ AttestationGenuine(f["final-attestation.cbor"])
    /\ f["final-attestation.cbor"].payload.nonce = hexBytes(finalAttestationNonce(f))
    /\ f["final-attestation.cbor"].payload.user_data = [sha256 |-> f["hashes.txt"]]

C2_RequestCarriesCommitment ==
    \A i \in 1..Len(attReqs) :
        attReqs[i].file = "final-attestation.cbor" =>
            /\ attReqs[i].nonce = hexBytes(finalAttestationNonce(fs))
            /\ attReqs[i].user_data = [sha256 |-> fs["hashes.txt"]]

C2_ShippedOnlyIfBound ==
    \A i \in 1..Len(sent) :
        sent[i].port = HostPort1 =>
            /\ FinalAttestationGood(fs)
            /\ \E k \in 1..Len(sent[i].files) :
                  /\ sent[i].files[k].name = "final-attestation.cbor"
                  /\ sent[i].files[k].content = fs["final-attestation.cbor"]

C2_MismatchIsFatal ==
    (pc = "FINAL_ATTESTATION" /\ ~FinalAttestationGood(fs')) =>
        /\ pc' = "exited"
        /\ exitCode' = 1
        /\ sent' = sent

\* C2: the final attestation is requested with nonce = finalAttestationNonce
\* and user_data = SHA-256(hashes.txt); the final artifacts are sent only if
\* the returned document passes verifyAttestationSignatures and its parsed
\* nonce and user_data equal the two committed values; otherwise the
\* process exits with code 1 and sends nothing more.
C2_FinalAttestationBoundToCommitment ==
    [](C2_RequestCarriesCommitment /\ C2_ShippedOnlyIfBound)
        /\ [][C2_MismatchIsFatal]_vars

C2_Witness ==
    /\ pc = "exited"
    /\ exitCode = 0
    /\ SentOn(HostPort1)
    /\ FinalAttestationGood(fs)

(***************************************************************************)
(* C3                                                                      *)
(***************************************************************************)
\* C3: when the beacon is applied, the contribution had completed, then the
\* time attestation with timestamp T was issued, and the applied beacon is
\* that of round R = round_at(T + 90000 ms), a round whose scheduled time is
\* strictly later than T and which was published after the contribution.
C3_BeaconAfterContribution ==
    \A i \in 1..Len(beaconCalls) :
        LET T == fs["time-attestation.cbor"].payload.timestamp
            b == fs["drand-beacon.json"].obj
        IN  /\ Len(attReqs) >= 1
            /\ attReqs[1].file = "time-attestation.cbor"
            /\ T = attReqs[1].at
            /\ contributedAt >= 0
            /\ contributedAt <= T
            /\ fs["time-attestation.cbor"].payload.nonce = [sha256 |-> fs["circuit_0001.zkey"]]
            /\ beaconCalls[i].zkey = fs["circuit_0001.zkey"]
            /\ beaconCalls[i].randomness = b.randomness
            /\ b.round.t = "number"
            /\ b.round.v = ((T + 90000) \div 30000) + 1
            /\ (b.round.v - 1) * 30000 > T
            /\ (b.round.v - 1) * 30000 > contributedAt
            /\ (b.round.v - 1) * 30000 <= beaconCalls[i].at

C3_Witness ==
    /\ Len(beaconCalls) = 1
    /\ contributedAt > 0
    /\ fs["time-attestation.cbor"].payload.timestamp > contributedAt
    /\ pc = "VERIFY_FINAL"

(***************************************************************************)
(* C4                                                                      *)
(***************************************************************************)
C4_RequestCarriesZkeyDigest ==
    (pc = "TIME_ATTESTATION" /\ pc' # pc) =>
        /\ attReqs = <<>>
        /\ Len(attReqs') = 1
        /\ attReqs'[1].file = "time-attestation.cbor"
        /\ attReqs'[1].nonce = [sha256 |-> fs["circuit_0001.zkey"]]
        /\ attReqs'[1].user_data = NoBytes

C4_ShippedOnlyIfBound ==
    \A i \in 1..Len(sent) :
        sent[i].port = HostPort =>
            /\ Len(sent[i].files) = 1
            /\ sent[i].files[1].name = "time-attestation.cbor"
            /\ AttestationGenuine(sent[i].files[1].content)
            /\ Len(attReqs) >= 1
            /\ sent[i].files[1].content.payload.nonce = attReqs[1].nonce

C4_MismatchIsFatal ==
    (pc = "TIME_ATTESTATION" /\ pc' # pc /\ ~TimeAttestationGood(fs')) =>
        /\ pc' = "exited"
        /\ exitCode' = 1
        /\ sent' = sent

\* C4: the time attestation is requested with nonce = SHA-256 of
\* circuit_0001.zkey and without user_data; it is sent to the host only
\* after verifyAttestationSignatures returned true for it and its parsed
\* nonce equals the submitted digest; otherwise the process exits with
\* code 1 without sending it.
C4_TimeAttestationBoundToContribution ==
    []C4_ShippedOnlyIfBound
        /\ [][C4_RequestCarriesZkeyDigest /\ C4_MismatchIsFatal]_vars

C4_Witness ==
    /\ pc = "AWAIT_BEACON"
    /\ SentOn(HostPort)
    /\ TimeAttestationGood(fs)
    /\ fs["circuit_0001.zkey"].entropy # NoBytes

(***************************************************************************)
(* C5                                                                      *)
(***************************************************************************)
BeaconReceived == fs["drand-beacon.json"].kind = "json" /\ timeAttestation # Unset

RoundIs(b, e) == b.round.t = "number" /\ b.round.v = e

C5_WrongRoundIsFalse ==
    BeaconReceived =>
        \A e \in 0..(ExpectedRound(fs) + 1) :
            ~RoundIs(fs["drand-beacon.json"].obj, e) =>
                verifyBeacon(fs["drand-beacon.json"].obj, e) = "false"

C5_AppliedRoundIsR ==
    beaconCalls # <<>> => RoundIs(fs["drand-beacon.json"].obj, ExpectedRound(fs))

C5_WrongRoundIsFatal ==
    (pc = "VERIFY_BEACON" /\ fs["drand-beacon.json"].kind = "json"
        /\ ~RoundIs(fs["drand-beacon.json"].obj, ExpectedRound(fs))) =>
           /\ pc' = "exited"
           /\ exitCode' = 1
           /\ beaconCalls' = <<>>

\* C5: verifyBeacon(beacon, expectedRound) returns false whenever
\* beacon.round differs from expectedRound, and the enclave never applies a
\* beacon whose round differs from the round R it computed from the time
\* attestation.
C5_OnlyRoundRIsApplied ==
    [](C5_WrongRoundIsFalse /\ C5_AppliedRoundIsR) /\ [][C5_WrongRoundIsFatal]_vars

\* a beacon the network really published, but for another round, was refused
C5_Witness ==
    /\ pc = "exited"
    /\ exitCode = 1
    /\ log[Len(log)] = "VERIFY_BEACON"
    /\ fs["drand-beacon.json"].kind = "json"
    /\ fs["drand-beacon.json"].obj.round.t = "number"
    /\ fs["drand-beacon.json"].obj = DrandBeacon(fs["drand-beacon.json"].obj.round.v)
    /\ fs["drand-beacon.json"].obj.round.v # ExpectedRound(fs)

(***************************************************************************)
(* C6                                                                      *)
(***************************************************************************)
\* the randomness text of the beacon whose signature text is sig
RandomnessOf(sig) == toStringHex(sha256(BufferFromHex(sig)))

\* text m is text s with one bit of one character inverted
OneBitMutation(m, s) ==
    /\ Len(m) = Len(s)
    /\ \E i \in 1..Len(s), k \in 0..7 : m = [s EXCEPT ![i] = FlipBit(s[i], k)]

\* C6: a beacon whose randomness field has one bit changed, everything else
\* left as published, makes verifyBeacon return false, and the enclave does
\* not call the beacon application with the mutated randomness.
C6_MutatedRandomnessRefused ==
    (BeaconReceived
        /\ OneBitMutation(fs["drand-beacon.json"].obj.randomness,
                          RandomnessOf(fs["drand-beacon.json"].obj.signature))) =>
           /\ verifyBeacon(fs["drand-beacon.json"].obj, ExpectedRound(fs)) = "false"
           /\ beaconCalls = <<>>

(***************************************************************************)
(* C7                                                                      *)
(***************************************************************************)
\* C7 as stated: for every T at or after the chain's genesis, the round
\* R = round_at(T + 90000 ms) has round_time(R) >= T + 90 s.
C7_RoundTimeAtLeast90sLater ==
    timeAttestation # Unset =>
        getRoundTime(drandRoundNumber(timeAttestation.timestamp))
            >= timeAttestation.timestamp + 90000

\* C7 amended: for every T at or after the chain's genesis, the round
\* R = round_at(T + 90000 ms) has T + 60 s < round_time(R) <= T + 90 s;
\* round_time(R) is later than T, but by as little as 60 s and 1 ms.
C7_RoundTimeBetween60sAnd90sLater ==
    timeAttestation # Unset =>
        LET T == timeAttestation.timestamp
            R == drandRoundNumber(T)
        IN  /\ getRoundTime(R) > T + 60000
            /\ getRoundTime(R) <= T + 90000
            /\ getRoundTime(R) > T

C7_Witness ==
    /\ timeAttestation # Unset
    /\ pc = "AWAIT_BEACON"
    /\ timeAttestation.timestamp % 30000 # 0
    /\ getRoundTime(drandRoundNumber(timeAttestation.timestamp))
          < timeAttestation.timestamp + 90000

(***************************************************************************)
(* C8                                                                      *)
(***************************************************************************)
\* C8: the 32 secret bytes are drawn once and used in one contribute call,
\* and on every way out of the contribution phase, the one where
\* contribute throws included, the raw buffer and its hex copy have been
\* overwritten.
C8_SecretUsedOnceAndErased ==
    (Ran("CONTRIBUTE") /\ pc # "CONTRIBUTE") =>
        /\ Len(randomDraws) = 1
        /\ contributeCalls = << [hex |-> randomDraws[1]] >>
        /\ secretBuf = ZeroBuf
        /\ secretHex = NulString

(***************************************************************************)
(* C9                                                                      *)
(***************************************************************************)
C9_PhasesInOrder ==
    /\ Len(log) <= Len(PhaseOrder)
    /\ \A i \in 1..Len(log) : log[i] = PhaseOrder[i]
    /\ pc # "exited" => pc = PhaseOrder[Len(log) + 1]
    /\ exitCode = 0 => log = PhaseOrder
    /\ pc = "exited" => exitCode \in {0, 1}
    /\ (pc = "exited" /\ Len(log) < Len(PhaseOrder)) => exitCode = 1

C9_OnePhaseAtATime ==
    /\ pc = "exited" => UNCHANGED vars
    /\ log' # log => log' = Append(log, pc)
    /\ exitCode' # exitCode => (pc' = "exited" /\ exitCode = 0 - 1)

\* C9: the enclave runs its phases in the listed order, each at most once
\* and each only after the one before it completed; after a failure no
\* later phase runs and the exit code is 1; the exit code is 0 only after
\* SHIP_ARTIFACTS completed.
C9_PhaseOrdering == []C9_PhasesInOrder /\ [][C9_OnePhaseAtATime]_vars

C9_Witness == pc = "exited" /\ exitCode = 0 /\ log = PhaseOrder

(***************************************************************************)
(* C10                                                                     *)
(***************************************************************************)
\* C10: when the platform's current hardware RNG is not "nsm-hwrng", the
\* enclave exits with code 1 before it opens a listener, receives a file
\* or draws random bytes.
C10_NoWorkWithoutNsmRng ==
    ~RngIsNsm =>
        /\ listens = <<>>
        /\ received = 0
        /\ randomDraws = <<>>
        /\ contributeCalls = <<>>
        /\ fs = [n \in FileNames |-> Absent]
        /\ pc \in {"RNG_CHECK", "exited"}
        /\ pc = "exited" => (exitCode = 1 /\ log = <<"RNG_CHECK">>)

C10_Witness ==
    /\ rngCurrent.readable
    /\ rngCurrent.text = <<"virtio_rng.0", "\n">>
    /\ pc = "exited"
    /\ exitCode = 1

(***************************************************************************)
(* C11                                                                     *)
(***************************************************************************)
\* the hex text of the SHA-256 of the file at path
DigestOf(f, path) == [hex |-> [sha256 |-> f[path]]]

ManifestPaths ==
    << "circuit.circom", "powersOfTau.ptau", "circuit_0000.zkey", "circuit.r1cs",
       "circuit_js/circuit.wasm", "time-attestation.cbor", "drand-beacon.json",
       "circuit_final.zkey", "verifier.sol", "verifier.creation.hex",
       "verifier.extcodehash.hex" >>

\* the eleven digests, in the order of the paths
ManifestDigests(f) == [i \in 1..11 |-> DigestOf(f, ManifestPaths[i])]

ManifestLine(f, i) ==
    << [str |-> ManifestPaths[i]], [str |-> ": "], DigestOf(f, ManifestPaths[i]) >>

NewLine == << [str |-> "\n"] >>

\* the manifest text, piece by piece
ManifestText(f) ==
    ManifestLine(f, 1) \o NewLine \o ManifestLine(f, 2) \o NewLine
      \o ManifestLine(f, 3) \o NewLine \o ManifestLine(f, 4) \o NewLine
      \o ManifestLine(f, 5) \o NewLine \o ManifestLine(f, 6) \o NewLine
      \o ManifestLine(f, 7) \o NewLine \o ManifestLine(f, 8) \o NewLine
      \o ManifestLine(f, 9) \o NewLine \o ManifestLine(f, 10) \o NewLine
      \o ManifestLine(f, 11) \o NewLine
      \o NewLine
      \o << [str |-> "concatenated: "] >> \o ManifestDigests(f) \o NewLine
      \o << [str |-> "finalAttestationNonce: "],
            [hex |-> [sha256 |-> ManifestDigests(f)]] >>

\* C11: the manifest commits the eleven artifacts in the fixed order
\* (circuit.circom, powersOfTau.ptau, circuit_0000.zkey, circuit.r1cs, the
\* compiled wasm at circuit_js/circuit.wasm, time-attestation.cbor,
\* drand-beacon.json, circuit_final.zkey, verifier.sol, verifier.creation.hex,
\* verifier.extcodehash.hex); concatenated is their hex digests joined in
\* that order, finalAttestationNonce is the SHA-256 of concatenated, and the
\* text of hashes.txt is one 'path: digest' line per file, an empty line,
\* the 'concatenated: ' line and the 'finalAttestationNonce: ' line, joined
\* by newlines with none at the end.
C11_ManifestFormat ==
    fs["hashes.txt"] # Absent =>
        /\ fs["hashes.txt"].kind = "text"
        /\ fs["hashes.txt"].text = ManifestText(fs)
        /\ fs["hashes.txt"].text[Len(fs["hashes.txt"].text)] # [str |-> "\n"]
        /\ commit.finalAttestationNonce = [hex |-> [sha256 |-> ManifestDigests(fs)]]
        /\ commit.hashOfHashesTxt = [hex |-> [sha256 |-> fs["hashes.txt"]]]

C11_Witness ==
    /\ pc = "FINAL_ATTESTATION"
    /\ fs["hashes.txt"] # Absent
    /\ Len(fs["hashes.txt"].text) = 60

(***************************************************************************)
(* C12                                                                     *)
(***************************************************************************)
\* the files with the contents at the i-th and the j-th committed path exchanged
SwapDigests(f, i, j) ==
    [f EXCEPT ![ManifestPaths[i]] = f[ManifestPaths[j]],
              ![ManifestPaths[j]] = f[ManifestPaths[i]]]

\* C12: for the manifest of a run, exchanging the positions of any two of
\* the eleven artifact digests in the declared order gives another
\* finalAttestationNonce (SHA-256 being injective).
C12_SwapChangesNonce ==
    commit # Unset =>
        \A i \in 1..11 : \A j \in (i + 1)..11 :
            /\ finalAttestationNonce(SwapDigests(fs, i, j)) # commit.finalAttestationNonce
            /\ finalAttestationNonce(SwapDigests(fs, i, j)) # finalAttestationNonce(fs)

C12_Witness ==
    /\ commit # Unset
    /\ pc = "exited"
    /\ exitCode = 0
    /\ \A i \in 1..11 : \A j \in (i + 1)..11 :
          ManifestDigests(fs)[i] # ManifestDigests(fs)[j]

(***************************************************************************)
(* C13                                                                     *)
(***************************************************************************)
\* [leaf, cabundle reversed] of the document handed to the verifier
CertChain ==
    LET p == attestation.payload
    IN  << p.certificate >> \o [i \in 1..Len(p.cabundle) |-> p.cabundle[Len(p.cabundle) + 1 - i]]

\* the clock lies within the validity of certificate c
WithinValidity(c) == c.validFrom <= now /\ now <= c.validTo

\* the conditions under which the verifier may answer true
VerificationConditions ==
    /\ attestation.kind = "attestation"
    /\ attestation.protected.alg = 0 - 35
    /\ \A i \in 1..Len(CertChain) : CertChain[i] # NotDer
    /\ CertChain[Len(CertChain)] = PINNED_ROOT_CERT
    /\ \A i \in 1..(Len(CertChain) - 1) :
          /\ CertChain[i].issuer = CertChain[i + 1].subject
          /\ WithinValidity(CertChain[i])
          /\ CertChain[i].signedBy = CertChain[i + 1].publicKey
    /\ WithinValidity(PINNED_ROOT_CERT)
    /\ attestation.signature.signer = CertChain[1].publicKey
    /\ attestation.signature.message =
          << "Signature1", attestation.protected, <<>>, attestation.payload >>

\* C13: verifyAttestationSignatures never throws and always returns a
\* boolean.  It returns true only when the algorithm of the protected header
\* is -35, the chain [leaf, cabundle reversed] ends in the pinned root, every
\* certificate but the last names the next as its issuer, is within its
\* validity and bears a valid signature of the next, the root is within its
\* validity, and the COSE signature over the protected header and the payload
\* verifies under the key of the leaf.  For malformed CBOR and whenever one
\* of these fails it returns false.
C13_VerifyTrueOnlyWhenAllChecksPass ==
    /\ verified \in { Unset, Returned(TRUE), Returned(FALSE) }
    /\ verified = Returned(TRUE) => VerificationConditions
    /\ (verified # Unset /\ ~VerificationConditions) => verified = Returned(FALSE)
    /\ (verified # Unset /\ attestation = Garbage) => verified = Returned(FALSE)

C13_Witness ==
    /\ verified = Returned(TRUE)
    /\ VerificationConditions
    /\ Len(CertChain) = 3

(***************************************************************************)
(* C14                                                                     *)
(***************************************************************************)
\* the document handed to the verifier is the issued one with its payload or
\* its protected header changed under the same signature, or with its
\* signature changed over the same header and payload
AlteredInOnePart ==
    /\ attestation # issued
    /\ attestation.kind = "attestation"
    /\ \/ attestation.signature = issued.signature
       \/ /\ attestation.payload = issued.payload
          /\ attestation.protected = issued.protected

AcceptedWhereTried ==
    /\ verified # Returned(FALSE)
    /\ parsed # Thrown
    /\ parsed # Unset => parsed.timestamp = issued.payload.timestamp

\* C15 as stated: for every well-formed attestation the issuer produced,
\* parseAttestationDocument succeeds and verifyAttestationSignatures returns
\* true.
C15_IssuedDocumentAccepted == attestation = issued => AcceptedWhereTried

\* C15, amended: for every well-formed attestation the issuer produced,
\* parseAttestationDocument succeeds, and verifyAttestationSignatures returns
\* true as long as the clock of the verifier is within the validity of every
\* certificate of the chain.
C15_IssuedDocumentAcceptedWhileCertificatesValid ==
    /\ (attestation = issued /\ parsed # Unset) =>
          /\ parsed # Thrown
          /\ parsed.timestamp = issued.payload.timestamp
    /\ (attestation = issued /\ verified # Unset
            /\ \A i \in 1..Len(CertChain) : WithinValidity(CertChain[i])) =>
          verified = Returned(TRUE)

C15_Witness ==
    /\ attestation = issued
    /\ now = 3 * 3600 * 1000
    /\ verified = Returned(TRUE)
    /\ parsed # Unset
    /\ parsed # Thrown
    /\ parsed.nonce = [hex |-> Blob(64)]

(***************************************************************************)
(* C16                                                                     *)
(***************************************************************************)
\* the byte string is present and longer than max bytes
LongerThan(b, max) == b # NoBytes /\ "len" \in DOMAIN b /\ b.len > max

\* C16: parseAttestationDocument throws when the nonce is longer than 64
\* bytes, the user data longer than 512 bytes, or the public key longer than
\* 1024 bytes.
C16_OversizeFieldsRejected ==
    ( /\ parsed # Unset
      /\ attestation.kind = "attestation"
      /\ \/ LongerThan(attestation.payload.nonce, 64)
         \/ LongerThan(attestation.payload.user_data, 512)
         \/ LongerThan(attestation.payload.public_key, 1024) )
        => parsed = Thrown

(***************************************************************************)
(* C17                                                                     *)
(***************************************************************************)
\* the peer ran sendFiles to its end and every byte it wrote was delivered
AllSentAndDelivered == plan # <<>> /\ written = Len(plan) /\ wire = <<>>

\* no file of the plan is empty
NoEmptyFile == \A i \in 1..Len(plan) : plan[i].body # <<>>

\* every write stream that was ended has flushed
AllFlushed == \A k \in 1..Len(rcv.closing) : rcv.closing[k].file \in rcv.flushed

\* C17: a file with bytes B (0 < |B| < 10^12) sent under a name N
\* (0 < |N| <= 4096 bytes) by the frame sender, its bytes delivered to the
\* frame receiver in chunks of any size, arrives as a file named N in the
\* save directory with bytes B, and the digest the receiver reports for it
\* is SHA-256(B).
C17_FrameRoundTrip ==
    (AllSentAndDelivered /\ NoEmptyFile /\ spurious = <<>> /\ AllFlushed) =>
        /\ rcv.promise = "resolved"
        /\ Len(rcv.reported) = Len(plan)
        /\ \A i \in 1..Len(plan) :
              /\ Append(SaveDir, plan[i].name) \in DOMAIN rcv.disk
              /\ rcv.disk[Append(SaveDir, plan[i].name)] = plan[i].body
              /\ \E k \in 1..Len(rcv.reported) :
                    /\ rcv.reported[k].path = Append(SaveDir, plan[i].name)
                    /\ rcv.reported[k].digest = [hex |-> [sha256 |-> plan[i].body]]

C17_Witness ==
    /\ AllSentAndDelivered
    /\ spurious = <<>>
    /\ AllFlushed
    /\ Len(plan) = 2
    /\ plan[1].filePath # plan[1].name
    /\ Len(plan[2].body) = 2
    /\ rcv.promise = "resolved"
    /\ Len(rcv.reported) = 2

(***************************************************************************)
(* C18                                                                     *)
(***************************************************************************)
\* the peer is gone, every byte it wrote was delivered, and the receiver
\* still lacks a file
ClosedEarly ==
    /\ peerEnded
    /\ wire = <<>>
    /\ rcv.idx < rcv.items

\* C18: when the peer closes the connection before all expected files are
\* received (in the middle of a file included), awaitFiles rejects and the
\* process exits non-zero: the receiver neither waits forever nor reports
\* success with a partial file.
C18_EarlyCloseRejects ==
    ClosedEarly => rcv.promise \in { "rejected", "crashed" }

(***************************************************************************)
(* C19                                                                     *)
(***************************************************************************)
\* the path names a file directly in the save directory
InSaveDir(path) ==
    /\ Len(path) = Len(SaveDir) + 1
    /\ SubSeq(path, 1, Len(SaveDir)) = SaveDir
    /\ path[Len(path)] \notin { <<46>>, <<46, 46>> }

\* C19: the receiver applies basename semantics to the name the sender
\* supplies; no file is created outside saveDir.
C19_NoFileOutsideSaveDir ==
    \A path \in DOMAIN rcv.disk : InSaveDir(path)

(***************************************************************************)
(* C20                                                                     *)
(***************************************************************************)
\* the 8 bytes, little-endian, are a size above 0 and below 10^12
\* (10^12 = 232 * 2^32 + 54437 * 2^16 + 4096)
SizeInRange(b) ==
    /\ \E i \in 1..8 : b[i] # 0
    /\ b[6] = 0 /\ b[7] = 0 /\ b[8] = 0
    /\ \/ b[5] < 232
       \/ b[5] = 232 /\ b[4] * 256 + b[3] < 54437
       \/ b[5] = 232 /\ b[4] * 256 + b[3] = 54437 /\ b[2] * 256 + b[1] < 4096

\* the 10 bytes are a header the receiver may accept
AcceptableHeader(b) ==
    /\ SizeInRange(b)
    /\ b[9] + 256 * b[10] > 0
    /\ b[9] + 256 * b[10] <= 4096

\* every header accepted so far is acceptable
C20_AcceptedHeadersInRange ==
    \A k \in 1..Len(rcv.tests) : rcv.tests[k].ok => AcceptableHeader(rcv.tests[k].bytes)

\* after a candidate that failed the test, the next candidate starts one
\* byte further in the stream
C20_OneByteDropped ==
    \A k \in 1..(Len(rcv.tests) - 1) :
        ~rcv.tests[k].ok => rcv.tests[k + 1].at = rcv.tests[k].at + 1

\* the parser went from header to name, from name to body, from body to header
C20_MovesInCycle ==
    /\ rcv.moves[1] = "hdr"
    /\ \A k \in 1..(Len(rcv.moves) - 1) :
          << rcv.moves[k], rcv.moves[k + 1] >> \in
              { << "hdr", "name" >>, << "name", "body" >>, << "body", "hdr" >> }
    /\ rcv.state = rcv.moves[Len(rcv.moves)]

\* C20: every header the receiver accepts has 0 < size < 10^12 and
\* 0 < name_len <= 4096; when a 10-byte candidate fails the test the receiver
\* drops exactly one byte and tests again; the parser only moves from HEADER
\* to NAME, from NAME to BODY and from BODY to HEADER.
C20_HeaderResync ==
    /\ C20_AcceptedHeadersInRange
    /\ C20_OneByteDropped
    /\ C20_MovesInCycle

C20_Witness ==
    /\ Len(rcv.tests) >= 2
    /\ ~rcv.tests[1].ok
    /\ rcv.tests[Len(rcv.tests)].ok
    /\ rcv.state = "hdr"
    /\ Len(rcv.moves) = 4

(***************************************************************************)
(* C21                                                                     *)
(***************************************************************************)
\* the header of the i-th frame the sender wrote
WrittenHeader(i) == SubSeq(lowSend(plan[i].filePath, plan[i].body), 1, 10)

\* C21: every frame the sender writes has 0 < size < 10^12 and
\* 0 < name_len <= 4096; the sender refuses to emit a header that the
\* receiver's sanity test would reject (an empty file, for example).
C21_SenderHeadersSane ==
    \A i \in 1..written : AcceptableHeader(WrittenHeader(i))

(***************************************************************************)
(* C22                                                                     *)
(***************************************************************************)
\* P is the smallest power in 8..28 with 2^P >= n
SmallestPower(P, n) ==
    /\ P \in 8..28
    /\ 2 ^ P >= n
    /\ P = 8 \/ 2 ^ (P - 1) < n

\* C22: for every constraint count n with 0 <= n <= 2^28,
\* getExpectedPtauFileInfo returns the catalog entry of the smallest P in
\* 8..28 with 2^P >= n (P = 8 for n <= 256), and that entry has power P and
\* maxConstraints 2^P; n = 1000 gives P = 10 (maxConstraints 1024) and
\* n = 65537 gives P = 17 (maxConstraints 131072).
C22_SmallestSufficientPower ==
    (ptauFileInfo # Unset /\ totalConstraints >= 0 /\ totalConstraints <= 2 ^ 28) =>
        /\ SmallestPower(ptauFileInfo.power, totalConstraints)
        /\ ptauFileInfo.maxConstraints = 2 ^ ptauFileInfo.power
        /\ ptauFileInfo.blake2b = [blake2b |-> GenuinePtau(ptauFileInfo.power)]
        /\ totalConstraints <= 256 => ptauFileInfo.power = 8
        /\ totalConstraints = 1000 =>
              ptauFileInfo.power = 10 /\ ptauFileInfo.maxConstraints = 1024
        /\ totalConstraints = 65537 =>
              ptauFileInfo.power = 17 /\ ptauFileInfo.maxConstraints = 131072

C22_Witness ==
    /\ totalConstraints = 65537
    /\ ptauFileInfo # Unset
    /\ ptauFileInfo.power = 17

(***************************************************************************)
(* Facts about a run of the host                                           *)
(***************************************************************************)
\* run() has completed the step
HostDone(step) == \E i \in 1..Len(hostLog) : hostLog[i] = step

\* the host has sent a batch to the port
HostSentOn(port) == \E i \in 1..Len(hostSent) : hostSent[i].port = port

\* the nine final artifacts, in the order of the specification
NineArtifacts ==
    << "circuit.circom", "circuit.r1cs", "circuit.wasm", "circuit_final.zkey",
       "verifier.sol", "verifier.creation.hex", "verifier.extcodehash.hex",
       "hashes.txt", "final-attestation.cbor" >>

\* the names of the files received after the time attestation
FinalReceived == SubSeq(artifacts, 2, Len(artifacts))

(***************************************************************************)
(* C23                                                                     *)
(***************************************************************************)
\* C23: for a circuit of more than 2^28 constraints the ceremony aborts in
\* pre-flight: no PTAU descriptor is returned, the host downloads no PTAU
\* file, does not start the enclave, sends no file, and does not exit with
\* code 0.
C23_TooManyConstraintsAbortsInPreflight ==
    circuit.nConstraints > 2 ^ 28 =>
        /\ expectedPtauFileInfo = Unset
        /\ ~HostDone("DOWNLOAD")
        /\ enclave.state = "off"
        /\ hostSent = <<>>
        /\ hostExitCode # 0

(***************************************************************************)
(* C24                                                                     *)
(***************************************************************************)
\* the host has completely received the nine final artifacts
AllNineReceived ==
    /\ FinalReceived = NineArtifacts
    /\ HostDone("AWAIT_ARTIFACTS")

\* C24: the host process exits with code 0 only after it has completely
\* received all nine final artifacts; in every other outcome, the end of the
\* process by the handler of the closing console stream included, its exit
\* code is not 0.
C24_ExitZeroOnlyAfterAllArtifacts ==
    hostPc = "exited" => (hostExitCode = 0 => AllNineReceived)

(***************************************************************************)
(* C25                                                                     *)
(***************************************************************************)
\* C25: the enclave sends exactly nine files, in the order circuit.circom,
\* circuit.r1cs, circuit.wasm, circuit_final.zkey, verifier.sol,
\* verifier.creation.hex, verifier.extcodehash.hex, hashes.txt,
\* final-attestation.cbor; the host expects nine files in that order, and
\* its receive completes exactly when the ninth file has been received.
C25_NineArtifactsInOrder ==
    /\ hostFinalItems = NineArtifacts
    /\ Len(FinalReceived) <= 9
    /\ FinalReceived = SubSeq(NineArtifacts, 1, Len(FinalReceived))
    /\ Len(FinalReceived) = enclave.shipped
    /\ HostDone("AWAIT_ARTIFACTS") => FinalReceived = NineArtifacts
    /\ (hostPc = "AWAIT_ARTIFACTS" /\ FinalReceived = NineArtifacts)
          => ENABLED HostAwaitArtifacts
    /\ (hostPc = "AWAIT_ARTIFACTS" /\ FinalReceived # NineArtifacts)
          => ~ENABLED HostAwaitArtifacts

C25_Witness ==
    /\ hostPc = "FINISH"
    /\ HostDone("AWAIT_ARTIFACTS")
    /\ enclave.shipped = 9
    /\ artifacts[10] = "final-attestation.cbor"

(***************************************************************************)
(* C26                                                                     *)
(***************************************************************************)
\* C26: the round is a function of the timestamp of the time attestation:
\* from the same bytes the host and the enclave both compute
\* R = round_at(timestamp + 90 000 ms); the round the host fetches and sends
\* is the round the enclave expects.
C26_HostAndEnclaveAgreeOnRound ==
    drandRoundNumber_host # -1 =>
        LET t == hostFs["time-attestation.cbor"].payload.timestamp
        IN  /\ drandRoundNumber_host = ((t + 90000) \div 30000) + 1
            /\ drandRoundNumber_host = enclave.expects
            /\ \A i \in 1..Len(fetches) : fetches[i].round = enclave.expects
            /\ HostSentOn(EnclavePort1) =>
                  /\ hostFs["drand-beacon.json"].kind = "json"
                  /\ hostFs["drand-beacon.json"].obj.round = [t |-> "number", v |-> enclave.expects]

C26_Witness ==
    /\ HostSentOn(EnclavePort1)
    /\ enclave.expects = 5
    /\ drandRoundNumber_host = 5
    /\ hostFs["time-attestation.cbor"].payload.timestamp = 30000

(***************************************************************************)
(* C27                                                                     *)
(***************************************************************************)
\* the beacon the drand network published for the round
PublishedBeacon(b, R) ==
    /\ b.round = [t |-> "number", v |-> R]
    /\ b.signature = toStringHex(DrandSig(R))
    /\ b.previous_signature = toStringHex(DrandSig(R - 1))
    /\ BufferFromHex(b.randomness) = sha256(DrandSig(R))

\* the fetch is issued once, at or after round_time(R) + 10 s on the clock
\* of the host; the beacon sent is one that passes the verification
C27_FetchOnceWhenAvailable ==
    /\ Len(fetches) <= 1
    /\ \A i \in 1..Len(fetches) :
          fetches[i].at >= (fetches[i].round - 1) * 30000 + 10000
    /\ HostSentOn(EnclavePort1) =>
          /\ Len(fetches) = 1
          /\ PublishedBeacon(hostBeacon, fetches[1].round)
          /\ hostFs["drand-beacon.json"] = [kind |-> "json", obj |-> hostBeacon]

\* a fetch that fails ends the host with a code other than 0, and so does
\* the step run() takes with a beacon that fails the verification
C27_FailureEndsHost ==
    /\ (fetches' # fetches /\ hostPc' # "VERIFY_BEACON")
          => (hostPc' = "exited" /\ hostExitCode' # 0)
    /\ ( /\ hostPc = "VERIFY_BEACON"
         /\ ~PublishedBeacon(hostBeacon, drandRoundNumber_host)
         /\ hostPc' # hostPc
         /\ exitedBy' # "console" )
          => (hostPc' = "exited" /\ hostExitCode' # 0)

\* C27: the host issues the fetch of the beacon of round R only when its
\* clock is at or past round_time(R) + 10 s; it fetches once; it sends
\* drand-beacon.json only after its own verification of the beacon
\* succeeded; a failed fetch or a failed verification ends the host with a
\* code other than 0, without another try.
C27_FetchWhenAvailableThenVerify ==
    []C27_FetchOnceWhenAvailable /\ [][C27_FailureEndsHost]_vars

C27_Witness ==
    /\ HostSentOn(EnclavePort1)
    /\ Len(fetches) = 1
    /\ fetches[1].round = 4
    /\ fetches[1].at = 100200

(***************************************************************************)
(* C28                                                                     *)
(***************************************************************************)
\* C28: on the host, new_zkey completes before the enclave is started, and
\* the three input files are sent only after both.
C28_NewZKeyBeforeEnclaveStart ==
    /\ enclave.state # "off" => HostDone("NEW_ZKEY")
    /\ HostSentOn(EnclavePort) => (HostDone("NEW_ZKEY") /\ HostDone("START_ENCLAVE"))

(***************************************************************************)
(* C29                                                                     *)
(***************************************************************************)
\* C29: awaitFiles resolves only once all expected files are fully written:
\* when its promise resolves, the write stream of every one of the
\* items.length files has flushed, in whatever order the streams complete.
C29_ResolvedOnlyWhenAllFlushed ==
    rcv.promise = "resolved" => \A i \in 1..rcv.items : i \in rcv.flushed

(***************************************************************************)
(* C30                                                                     *)
(***************************************************************************)
\* the test is the first one the receiver accepted
FirstAccepted(k) ==
    /\ rcv.tests[k].ok
    /\ \A j \in 1..(k - 1) : ~rcv.tests[j].ok

\* C30: when a valid frame follows spurious bytes, the first header the
\* receiver accepts is the header the sender wrote (no window that starts
\* inside the spurious bytes passes the sanity test), and the receiver
\* recovers the name and the body that were sent.
C30_SpuriousPrefixSkipped ==
    (spurious # <<>> /\ written = 1) =>
        /\ \A k \in 1..Len(rcv.tests) :
              FirstAccepted(k) =>
                  /\ rcv.tests[k].at = Len(spurious)
                  /\ rcv.tests[k].bytes = WrittenHeader(1)
        /\ (wire = <<>> /\ AllFlushed) =>
              /\ DOMAIN rcv.disk = { Append(SaveDir, plan[1].name) }
              /\ rcv.disk[Append(SaveDir, plan[1].name)] = plan[1].body

(***************************************************************************)
(* C31                                                                     *)
(***************************************************************************)
\* C31: for each of the four transfers, the sender connects only after the
\* receiving process listens on the port of the transfer, in every
\* interleaving of the two processes.
C31_ConnectOnlyAfterListen ==
    \A i \in 1..Len(connects) : connects[i].up

(***************************************************************************)
(* C32                                                                     *)
(***************************************************************************)
\* C32: the circuit_0001.zkey given to zKey.beacon is the content whose
\* SHA-256 was the nonce of the request for the time attestation, whatever
\* name the host gave to the file it sent as the beacon.
C32_BeaconAppliedToAttestedZkey ==
    \A i \in 1..Len(beaconCalls) :
        \E k \in 1..Len(attReqs) :
            /\ attReqs[k].file = "time-attestation.cbor"
            /\ attReqs[k].nonce = sha256Bytes(beaconCalls[i].zkey)

C32_Witness ==
    /\ Len(beaconCalls) = 1
    /\ beaconCalls[1].zkey.entropy # NoBytes
    /\ fs["circuit_final.zkey"] # Absent
    /\ attReqs[1].nonce = sha256Bytes(fs["circuit_0001.zkey"])

(***************************************************************************)
(* C33                                                                     *)
(***************************************************************************)
\* the file of that name in the batch
ShippedFile(batch, name) ==
    batch.files[CHOOSE k \in 1..Len(batch.files) : batch.files[k].name = name]

\* the text has the line 'path: digest' of the content
ListedIn(text, path, content) ==
    \E q \in 1..(Len(text) - 2) :
        SubSeq(text, q, q + 2)
            = << [str |-> path], [str |-> ": "], [hex |-> [sha256 |-> content]] >>

\* C33: every file sent in SHIP_ARTIFACTS other than hashes.txt and
\* final-attestation.cbor is one of the eleven committed paths and is sent
\* with the content whose digest the manifest lists for it, and the
\* hashes.txt sent is the content whose digest was the user_data of the
\* request for the final attestation.
C33_ShippedFilesAreCommitted ==
    \A i \in 1..Len(sent) :
        sent[i].port = HostPort1 =>
            LET manifest == ShippedFile(sent[i], "hashes.txt").content
            IN  /\ \A k \in 1..Len(sent[i].files) :
                      sent[i].files[k].name \notin {"hashes.txt", "final-attestation.cbor"} =>
                          /\ \E j \in 1..11 : ManifestPaths[j] = sent[i].files[k].name
                          /\ ListedIn(manifest.text, sent[i].files[k].name,
                                      sent[i].files[k].content)
                /\ \E r \in 1..Len(attReqs) :
                      /\ attReqs[r].file = "final-attestation.cbor"
                      /\ attReqs[r].user_data = [sha256 |-> manifest]

C33_Witness ==
    /\ Len(sent) = 2
    /\ sent[2].port = HostPort1
    /\ Len(sent[2].files) = 9
    /\ ShippedFile(sent[2], "circuit_final.zkey").content.beacon # <<>>
    /\ ShippedFile(sent[2], "hashes.txt").content = fs["hashes.txt"]

(***************************************************************************)
(* C34                                                                     *)
(***************************************************************************)
\* C34: when the k frames of a sendFiles call (no file empty, the names
\* distinct) reach a receiver that expects k files, the receiver completes
\* k files in the order sent, the i-th under the name of frame i, with the
\* body of frame i as its bytes, and with SHA-256(body of frame i) as its
\* digest, however the bytes are cut into chunks.
C34_BackToBackFrames ==
    (AllSentAndDelivered /\ NoEmptyFile /\ spurious = <<>>) =>
        /\ Len(rcv.closing) = Len(plan)
        /\ DOMAIN rcv.disk = { Append(SaveDir, plan[i].name) : i \in 1..Len(plan) }
        /\ \A i \in 1..Len(plan) :
              /\ rcv.closing[i].file = i
              /\ rcv.closing[i].path = Append(SaveDir, plan[i].name)
              /\ rcv.closing[i].digest = [hex |-> [sha256 |-> plan[i].body]]
              /\ rcv.disk[rcv.closing[i].path] = plan[i].body

\* one chunk held the end of the first frame and the whole second frame
C34_Witness ==
    /\ AllSentAndDelivered
    /\ NoEmptyFile
    /\ spurious = <<>>
    /\ Len(plan) = 2
    /\ rcv.burst = 2
    /\ Len(rcv.closing) = 2

(***************************************************************************)
(* C35                                                                     *)
(***************************************************************************)
\* the variables of the parser, and whether the listener caught an error
ParserState(m) ==
    << m.state, m.idx, m.pending, m.fileSize, m.nameLen, m.received, m.sha,
       m.currentFilename, m.sock = "destroyed" >>

\* the files written and, per completed file, its path and its digest
ParserOutputs(m) ==
    << m.disk,
       [i \in 1..Len(m.closing) |-> << m.closing[i].path, m.closing[i].digest >>] >>

\* C35: the parser state and the files, names and digests the receiver has
\* produced from the bytes delivered so far are those it produces when the
\* same bytes arrive as one chunk: the cut of the stream into chunks makes
\* no difference.
C35_ChunkingMakesNoDifference ==
    LET once == onData(Connection(rcv.items), rcv.heard)
    IN  /\ ParserState(rcv) = ParserState(once)
        /\ ParserOutputs(rcv) = ParserOutputs(once)

(***************************************************************************)
(* C36                                                                     *)
(***************************************************************************)
\* the number of write streams the receiver has created
StreamsCreated == Cardinality({ k \in 1..Len(rcv.moves) : rcv.moves[k] = "body" })

\* no more write streams and no more files than items
C36_AtMostItemsFiles ==
    /\ StreamsCreated <= rcv.items
    /\ Cardinality(DOMAIN rcv.disk) <= rcv.items

\* once the last expected file is complete no byte is written to a file and
\* no digest changes
C36_NothingAfterLastFile ==
    rcv.idx = rcv.items =>
        /\ rcv'.disk = rcv.disk
        /\ rcv'.closing = rcv.closing
        /\ \A k \in 1..Len(rcv.reported) : rcv'.reported[k] = rcv.reported[k]

\* a later connection changes nothing at the receiver
C36_OnlyFirstConnection ==
    stray' # stray => rcv' = rcv

\* C36: one awaitFiles call creates at most items.length files and serves
\* only the first connection; bytes that arrive after the body of the last
\* expected file are not written to any file and change no digest already
\* computed.
C36_CountedCompletion ==
    /\ []C36_AtMostItemsFiles
    /\ [][C36_NothingAfterLastFile /\ C36_OnlyFirstConnection]_vars

\* three frames were delivered to a receiver of one file, which kept the
\* first and refused the rest
C36_Witness ==
    /\ plan = <<>>
    /\ rcv.items = 1
    /\ Len(rcv.heard) = 36
    /\ rcv.idx = 1
    /\ rcv.sock = "destroyed"
    /\ rcv.disk = (Append(SaveDir, <<97>>) :> <<7>>)
    /\ rcv.closing[1].digest = [hex |-> [sha256 |-> <<7>>]]

(***************************************************************************)
(* C37                                                                     *)
(***************************************************************************)
\* C37: the loop of getExpectedPtauFileInfo that searches for P ends for
\* every constraint count n >= 0, counts above 2^30 included, with 1 << P
\* computed on 32-bit signed integers.
C37_LoopTerminates == <>(loopPc = "done")

(***************************************************************************)
(* C38                                                                     *)
(***************************************************************************)
\* a tool has failed, or a peer has connected to a port nobody listened on
HandshakeHypothesisBroken ==
    oracleFailed \/ \E i \in 1..Len(connects) : ~connects[i].up

BothExitedZero == peerExit["host"] = 0 /\ peerExit["enclave"] = 0

\* C38: when every tool succeeds and every listener is up before its peer
\* connects, then under fair scheduling the enclave reaches SHIP_ARTIFACTS
\* and both peers exit with code 0: no run of the four transfers ends with
\* the two peers waiting for each other.
C38_CeremonyCompletes ==
    /\ <>(HandshakeHypothesisBroken \/ cur("enclave").name = "SHIP_ARTIFACTS")
    /\ <>(HandshakeHypothesisBroken \/ BothExitedZero)

\* all four transfers were connected to a listening port and both peers
\* have exited with code 0
C38_Witness ==
    /\ BothExitedZero
    /\ ~oracleFailed
    /\ Len(connects) = 4
    /\ \A i \in 1..4 : connects[i].up
    /\ \A t \in 1..4 : closed(link[t])

(***************************************************************************)
(* C39                                                                     *)
(***************************************************************************)
\* the argument is present and longer than max bytes
Oversized(b, max) == b # NoBytes /\ b.len > max

\* C39: getAttestationDoc leaves the file as it was on error: with a nonce
\* longer than 64 bytes or userData longer than 512 bytes it rejects without
\* spawning the helper; when the helper does not exit with code 0 it rejects
\* and writes nothing; the file is written only with the whole stdout of a
\* helper that exited with code 0.
C39_NoFileOnError ==
    /\ (Oversized(docArgs.nonce, 64) \/ Oversized(docArgs.userData, 512)) =>
           /\ docChild = Unset
           /\ docPc \in { "check", "done" }
           /\ docPc = "done" => docResult = "rejected"
    /\ (docChild # Unset /\ docChild.exit \notin { Running, [code |-> 0] }) =>
           /\ docPc \in { "spawned", "done" }
           /\ docPc = "done" => docResult = "rejected"
    /\ docResult = "rejected" => docFile = docArgs.before
    /\ docFile # docArgs.before =>
           /\ docChild # Unset
           /\ docChild.exit = [code |-> 0]
           /\ docFile = [ bytes |-> docChild.out ]
           /\ docChild.out = DocBytes

\* the helper was killed after a part of the document; the call rejected
\* and the earlier file is still there
C39_Witness ==
    /\ docPc = "done"
    /\ docResult = "rejected"
    /\ docChild # Unset
    /\ docChild.exit = [signal |-> "SIGKILL"]
    /\ Len(docChunks) = 2
    /\ docFile = OldFile

====
